---- MODULE Spec2Model ----
(***************************************************************************)
(* Verification model of balancer-examples:                                *)
(*   - packages/seesaw: weighted-pool pricing and arbitrage sizing         *)
(*     (arbOpp.ts, pools/weightedPool/weightedMath.ts)                     *)
(*   - packages/pool-controllers: CopperLBPLauncher.sol (manager, fee      *)
(*     recipient, auctions, pool owners, exit fee) and                     *)
(*     BalancerRevenueShareDistributor.sol                                 *)
(*   - packages/pool-permissioned: PermissionedRegistry.sol and            *)
(*     PermissionedPool.sol                                                *)
(*   - packages/pool-charity: CharityPool.sol                              *)
(*   - packages/pool-template: ExamplePool.sol                             *)
(*                                                                         *)
(* decimal.js values are modelled as exact rationals n/d.  A result that   *)
(* decimal.js could not hold exactly in its 20 significant digits (a       *)
(* non-terminating quotient, an irrational root) is the value Inexact; the *)
(* pricing actions are enabled on the inputs for which every intermediate  *)
(* value is exact, so that on those inputs the model computes digit for    *)
(* digit what the code computes.                                           *)
(***************************************************************************)
EXTENDS Integers, Sequences, FiniteSets, TLC

VARIABLES
  poolState,  \* the PoolState snapshot the pricing functions are called on
  fn,         \* the pricing function that was called, "none" before the call
  args,       \* its arguments
  ret,        \* what it returned
  _manager,             \* CopperLBPLauncher._manager
  _managerCandidate,    \* CopperLBPLauncher._managerCandidate
  _feeRecipient,        \* CopperLBPLauncher._feeRecipient
  _timelockController,  \* number of the timelock deployment the launcher uses
  timelocks,            \* state of every deployed TimelockController
  now,                  \* block.timestamp, in days
  nomination,           \* history: who nominated the pending candidate
  lastCall,             \* the transaction of the last step and its outcome
  _pools,               \* CopperLBPLauncher._pools, in insertion order
  _poolData,            \* CopperLBPLauncher._poolData
  lbps,                 \* the LBPs the factory deployed and their Vault balances
  held,                 \* the launcher's own balance of every token
  exitFeePercentage,    \* CopperLBPLauncher.exitFeePercentage (immutable)
  poolCall,             \* the pool transaction of the last step
  distributor,          \* BalancerRevenueShareDistributor: its public state
  distributorBalance,   \* the distributor's own balance of every token
  distributorCall,      \* the distributor transaction of the last step
  _allowlistOwners,     \* PermissionedRegistry._allowlistOwners
  _allowlists,          \* PermissionedRegistry._allowlists
  bptBalances,           \* PermissionedPool: the BPT balance of every address
  paused,               \* PermissionedPool: whether the pool is paused
  permissionedCall,     \* the registry or pool transaction of the last step
  charityPool,          \* CharityPool: BPT, Vault balances, what the charity got
  charityCall,          \* the CharityPool transaction of the last step
  examplePool,          \* ExamplePool: its immutables
  exampleCall           \* the ExamplePool call of the last step

pricingVars == <<poolState, fn, args, ret>>

launcherVars ==
  <<_manager, _managerCandidate, _feeRecipient, _timelockController,
    timelocks, now, nomination, lastCall>>

poolVars == <<_pools, _poolData, lbps, held, exitFeePercentage, poolCall>>

distributorVars == <<distributor, distributorBalance, distributorCall>>

permissionedVars ==
  <<_allowlistOwners, _allowlists, bptBalances, paused, permissionedCall>>

charityVars == <<charityPool, charityCall>>

templateVars == <<examplePool, exampleCall>>

\* the example pools: CharityPool and ExamplePool
exampleVars == <<charityVars, templateVars>>

contractVars == <<poolVars, distributorVars, permissionedVars, exampleVars>>

\* the contracts other than the launcher and its pools
otherContracts == <<distributorVars, permissionedVars, exampleVars>>

vars ==
  <<poolState, fn, args, ret, _manager, _managerCandidate, _feeRecipient,
    _timelockController, timelocks, now, nomination, lastCall, contractVars>>

\* ------------------------------------------------------------------------
\* Integer helpers
\* ------------------------------------------------------------------------
Abs(i) == IF i < 0 THEN -i ELSE i

Sgn(i) == IF i < 0 THEN -1 ELSE IF i = 0 THEN 0 ELSE 1

Max2(a, b) == IF a >= b THEN a ELSE b

RECURSIVE GCD(_, _)
GCD(a, b) == IF b = 0 THEN a ELSE GCD(b, a % b)

RECURSIVE IntPow(_, _)
IntPow(b, e) == IF e = 0 THEN 1 ELSE b * IntPow(b, e - 1)

\* number of times prime p divides d
RECURSIVE Mult(_, _)
Mult(d, p) == IF d % p = 0 THEN 1 + Mult(d \div p, p) ELSE 0

\* d with every factor p removed
RECURSIVE Strip(_, _)
Strip(d, p) == IF d % p = 0 THEN Strip(d \div p, p) ELSE d

\* decimal digits of a natural number, most significant first
RECURSIVE NatDigits(_)
NatDigits(i) == IF i < 10 THEN <<i>> ELSE Append(NatDigits(i \div 10), i % 10)

\* the first m fractional digits of r/d, 0 <= r < d  (long division)
RECURSIVE FracDigits(_, _, _)
FracDigits(r, d, m) ==
  IF m = 0 THEN <<>>
  ELSE <<(r * 10) \div d>> \o FracDigits((r * 10) % d, d, m - 1)

RECURSIVE LeadingZeros(_)
LeadingZeros(s) ==
  IF s = <<>> \/ Head(s) # 0 THEN 0 ELSE 1 + LeadingZeros(Tail(s))

\* b^e, or cap + 1 as soon as the power exceeds cap
RECURSIVE PowCap(_, _, _)
PowCap(b, e, cap) ==
  IF e = 0 THEN 1
  ELSE LET r == PowCap(b, e - 1, cap)
       IN IF r > cap \/ (b > 0 /\ r > cap \div b) THEN cap + 1 ELSE r * b

\* the largest r with r^q <= a, searched upwards
RECURSIVE RootFrom(_, _, _)
RootFrom(r, q, a) ==
  IF PowCap(r + 1, q, a) > a THEN r ELSE RootFrom(r + 1, q, a)

IRoot(a, q) == RootFrom(0, q, a)

\* ------------------------------------------------------------------------
\* decimal.js : Decimal values
\* ------------------------------------------------------------------------
\* decimal.js default configuration
Precision == 20
ToExpNeg == 7

\* numerators and denominators the model holds; a value beyond them is
\* treated like one that 20 digits cannot hold
MaxCoefficient == 30000

\* a JavaScript undefined where a Decimal is expected
Undefined == [k |-> "undefined", n |-> 0, d |-> 1]
\* [DecimalError] Invalid argument, thrown by the Decimal constructor
DecimalError == [k |-> "throw", n |-> 0, d |-> 1]
NaN == [k |-> "nan", n |-> 0, d |-> 1]
Infinity == [k |-> "inf", n |-> 1, d |-> 1]
NegInfinity == [k |-> "inf", n |-> -1, d |-> 1]
Inexact == [k |-> "inexact", n |-> 0, d |-> 1]

IsFin(x) == x.k = "fin"

\* number of fractional decimal digits of n/d when the expansion terminates
DecimalPlaces(d) == Max2(Mult(d, 2), Mult(d, 5))

Terminates(d) == Strip(Strip(d, 2), 5) = 1

\* significant digits of the terminating decimal n/d (n >= 0, lowest terms)
SigDigits(n, d) ==
  IF n = 0 THEN 1
  ELSE IF n \div d > 0 THEN Len(NatDigits(n \div d)) + DecimalPlaces(d)
  ELSE DecimalPlaces(d) - LeadingZeros(FracDigits(n % d, d, DecimalPlaces(d)))

\* the Decimal holding n/d (d # 0), or Inexact when 20 digits cannot hold it
Dec(n, d) ==
  LET g == GCD(Abs(n), Abs(d))
      nn == Sgn(d) * (n \div g)
      dd == Abs(d) \div g
  IN IF /\ Abs(nn) <= MaxCoefficient /\ dd <= MaxCoefficient
        /\ Terminates(dd) /\ SigDigits(Abs(nn), dd) <= Precision
     THEN [k |-> "fin", n |-> nn, d |-> dd]
     ELSE Inexact

DecInt(i) == [k |-> "fin", n |-> i, d |-> 1]

ZERO == DecInt(0)
ONE == DecInt(1)
NEGATIVE_ONE == DecInt(-1)

DSign(x) == Sgn(x.n)

neg(x) == IF x.k \in {"fin", "inf"} THEN [x EXCEPT !.n = -x.n] ELSE x

AnyOf(x, y, kind) == x.k = kind \/ y.k = kind

\* an argument that is not a Decimal makes every method throw
Throws(x, y) == AnyOf(x, y, "throw") \/ AnyOf(x, y, "undefined")

mul(x, y) ==
  IF Throws(x, y) THEN DecimalError
  ELSE IF AnyOf(x, y, "inexact") THEN Inexact
  ELSE IF AnyOf(x, y, "nan") THEN NaN
  ELSE IF AnyOf(x, y, "inf")
       THEN IF DSign(x) * DSign(y) = 0 THEN NaN
            ELSE IF DSign(x) * DSign(y) > 0 THEN Infinity ELSE NegInfinity
  ELSE Dec(x.n * y.n, x.d * y.d)

div(x, y) ==
  IF Throws(x, y) THEN DecimalError
  ELSE IF AnyOf(x, y, "inexact") THEN Inexact
  ELSE IF AnyOf(x, y, "nan") THEN NaN
  ELSE IF x.k = "inf"
       THEN IF y.k = "inf" THEN NaN
            ELSE IF DSign(x) * (IF DSign(y) < 0 THEN -1 ELSE 1) > 0
                 THEN Infinity ELSE NegInfinity
  ELSE IF y.k = "inf" THEN ZERO
  ELSE IF y.n = 0
       THEN IF x.n = 0 THEN NaN
            ELSE IF x.n > 0 THEN Infinity ELSE NegInfinity
  ELSE mul(x, [k |-> "fin", n |-> Sgn(y.n) * y.d, d |-> Abs(y.n)])

add(x, y) ==
  IF Throws(x, y) THEN DecimalError
  ELSE IF AnyOf(x, y, "inexact") THEN Inexact
  ELSE IF AnyOf(x, y, "nan") THEN NaN
  ELSE IF x.k = "inf" /\ y.k = "inf"
       THEN IF x.n = y.n THEN x ELSE NaN
  ELSE IF x.k = "inf" THEN x
  ELSE IF y.k = "inf" THEN y
  ELSE LET g == GCD(x.d, y.d)
       IN Dec(x.n * (y.d \div g) + y.n * (x.d \div g), x.d * (y.d \div g))

sub(x, y) == add(x, neg(y))

plus(x, y) == add(x, y)

minus(x, y) == sub(x, y)

IsInteger(x) == IsFin(x) /\ x.d = 1

\* x^y as Decimal.pow computes it; exact when x is a perfect y.d-th power
pow(x, y) ==
  IF Throws(x, y) THEN DecimalError
  ELSE IF AnyOf(x, y, "inexact") THEN Inexact
  ELSE IF AnyOf(x, y, "nan") THEN NaN
  ELSE IF y.k = "inf" THEN Inexact
  ELSE IF y.n = 0 THEN ONE
  ELSE IF x.k = "inf"
       THEN IF y.n < 0 THEN ZERO
            ELSE IF x.n > 0 THEN Infinity
            ELSE IF ~IsInteger(y) THEN NaN
            ELSE IF y.n % 2 = 0 THEN Infinity ELSE NegInfinity
  ELSE IF x.n = 0 THEN (IF y.n > 0 THEN ZERO ELSE Infinity)
  ELSE IF x.n < 0 /\ ~IsInteger(y) THEN NaN
  ELSE LET ra == IRoot(Abs(x.n), y.d)
           rb == IRoot(x.d, y.d)
           e == Abs(y.n)
           s == IF x.n < 0 /\ e % 2 = 1 THEN -1 ELSE 1
           pa == PowCap(ra, e, MaxCoefficient)
           pb == PowCap(rb, e, MaxCoefficient)
       IN IF IntPow(ra, y.d) # Abs(x.n) \/ IntPow(rb, y.d) # x.d THEN Inexact
          ELSE IF y.n > 0 THEN Dec(s * pa, pb)
          ELSE Dec(s * pb, pa)

\* numeric order of two finite Decimals
Lt(x, y) == x.n * y.d < y.n * x.d

Le(x, y) == x.n * y.d <= y.n * x.d

\* ------------------------------------------------------------------------
\* Decimal.valueOf(): the string a relational operator compares
\* ------------------------------------------------------------------------
\* strings are sequences of UTF-16 code units
Ch(digit) == 48 + digit

RECURSIVE Chars(_)
Chars(ds) == IF ds = <<>> THEN <<>> ELSE <<Ch(Head(ds))>> \o Chars(Tail(ds))

RECURSIVE DropZeros(_)
DropZeros(s) == IF s # <<>> /\ Head(s) = 0 THEN DropZeros(Tail(s)) ELSE s

\* "." followed by the digits, or nothing when there are none
Point(ds) == IF ds = <<>> THEN <<>> ELSE <<46>> \o Chars(ds)

valueOf(x) ==
  IF x.k = "nan" THEN <<78, 97, 78>>
  ELSE IF x.k = "inf"
       THEN (IF x.n < 0 THEN <<45>> ELSE <<>>)
            \o <<73, 110, 102, 105, 110, 105, 116, 121>>
  ELSE LET a == Abs(x.n)
           m == DecimalPlaces(x.d)
           F == FracDigits(a % x.d, x.d, m)
           z == LeadingZeros(F)
           c == DropZeros(F)
           sign == IF x.n < 0 THEN <<45>> ELSE <<>>
       IN IF a # 0 /\ a \div x.d = 0 /\ z + 1 >= ToExpNeg
          THEN sign \o <<Ch(Head(c))>> \o Point(Tail(c))
                    \o <<101, 45>> \o Chars(NatDigits(z + 1))
          ELSE sign \o Chars(NatDigits(a \div x.d)) \o Point(F)

\* a > b on two strings: lexicographic order of the code units
RECURSIVE StringGreater(_, _)
StringGreater(a, b) ==
  IF a = <<>> THEN FALSE
  ELSE IF b = <<>> THEN TRUE
  ELSE IF Head(a) # Head(b) THEN Head(a) > Head(b)
  ELSE StringGreater(Tail(a), Tail(b))

\* x > y on two Decimal objects: both operands are converted with valueOf(),
\* which returns a string, so the strings are compared
JsGreater(x, y) == StringGreater(valueOf(x), valueOf(y))

\* ------------------------------------------------------------------------
\* numbers.ts : 18-decimal fixed point <-> Decimal
\* ------------------------------------------------------------------------
\* A fixed-point BigNumber is held as the rational it denotes (raw / 1e18).
FpDecimals == 18

\* fromFp(x), fromFpDecimals(x, 18): the Decimal  x / 1e18
fromFp(x) == Dec(x.n, x.d)

fromFpDecimals(x, decimals) == Dec(x.n, x.d)

\* fp(x): the BigNumber of x * 1e18, fraction dropped; BigNumber.from throws
\* on NaN and Infinity
fp(x) ==
  IF x.k \in {"nan", "inf", "undefined", "throw"} THEN DecimalError
  ELSE IF x.k = "inexact" THEN Inexact
  ELSE IF DecimalPlaces(x.d) <= FpDecimals THEN x
  ELSE Inexact

\* ------------------------------------------------------------------------
\* weightedMath.ts
\* ------------------------------------------------------------------------
\* variant: the ratio under the power is turned upside down
_exactTokenInForTokenOut_invertedRatio(amount, poolPairData) ==
  LET Bi == poolPairData.balanceIn
      Bo == poolPairData.balanceOut
      wi == poolPairData.weightIn
      wo == poolPairData.weightOut
      Ai == amount
      f == poolPairData.swapFee
  IN mul(Bo, minus(ONE, pow(div(plus(Bi, mul(Ai, sub(ONE, f))), Bi),
                            div(wi, wo))))

\* variant: the amount in is added to the wrong balance
_exactTokenInForTokenOut_wrongBalance(amount, poolPairData) ==
  LET Bi == poolPairData.balanceIn
      Bo == poolPairData.balanceOut
      wi == poolPairData.weightIn
      wo == poolPairData.weightOut
      Ai == amount
      f == poolPairData.swapFee
  IN mul(Bo, minus(ONE, pow(div(Bi, plus(Bo, mul(Ai, sub(ONE, f)))),
                            div(wi, wo))))

_exactTokenInForTokenOut(amount, poolPairData) ==
  LET Bi == poolPairData.balanceIn
      Bo == poolPairData.balanceOut
      wi == poolPairData.weightIn
      wo == poolPairData.weightOut
      Ai == amount
      f == poolPairData.swapFee
  IN mul(Bo, minus(ONE, pow(div(Bi, plus(Bi, mul(Ai, sub(ONE, f)))),
                            div(wi, wo))))

_tokenInForExactTokenOut(amount, poolPairData) ==
  LET Bi == poolPairData.balanceIn
      Bo == poolPairData.balanceOut
      wi == poolPairData.weightIn
      wo == poolPairData.weightOut
      Ao == amount
      f == poolPairData.swapFee
  IN mul(Bi, div(plus(NEGATIVE_ONE, pow(div(Bo, sub(Bo, Ao)), div(wo, wi))),
                 sub(NEGATIVE_ONE, f)))

_spotPriceAfterSwapExactTokenInForTokenOut(amount, poolPairData) ==
  LET Bi == poolPairData.balanceIn
      Bo == poolPairData.balanceOut
      wi == poolPairData.weightIn
      wo == poolPairData.weightOut
      Ai == amount
      f == poolPairData.swapFee
  IN mul(NEGATIVE_ONE,
         div(mul(Bi, wo),
             mul(pow(mul(mul(Bo, sub(f, ONE)),
                         div(Bi, sub(plus(Ai, Bi), mul(Ai, f)))),
                     div(plus(wi, wo), wo)),
                 wi)))

_spotPriceAfterSwapTokenInForExactTokenOut(amount, poolPairData) ==
  LET Bi == poolPairData.balanceIn
      Bo == poolPairData.balanceOut
      wi == poolPairData.weightIn
      wo == poolPairData.weightOut
      Ao == amount
      f == poolPairData.swapFee
  IN mul(NEGATIVE_ONE,
         div(mul(pow(mul(Bi, div(Bo, sub(Bo, Ao))), div(plus(wi, wo), wi)),
                 wo),
             mul(mul(Bo, sub(f, ONE)), wi)))

\* ------------------------------------------------------------------------
\* arbOpp.ts
\* ------------------------------------------------------------------------
getSpotPrice(pairData) ==
  LET swapFeeComplement == sub(DecInt(1), pairData.swapFee)
      balanceOverWeightIn == div(pairData.balanceIn, pairData.weightIn)
      balanceOverWeightOut == div(pairData.balanceOut, pairData.weightOut)
  IN div(div(balanceOverWeightOut, balanceOverWeightIn), swapFeeComplement)

\* variant: the final subtraction of ONE is missing
getAmountInNoFees_withoutSubOne(pairData, desiredSpotPrice) ==
  LET spotPrice == getSpotPrice(pairData)
      exponent == sub(div(pairData.weightOut,
                          add(pairData.weightIn, pairData.weightOut)),
                      DecInt(1))
  IN mul(pairData.balanceIn, pow(div(desiredSpotPrice, spotPrice), exponent))

getAmountInForSpotPriceAfterSwapNoFees(pairData, desiredSpotPrice) ==
  LET spotPrice == getSpotPrice(pairData)
      exponent == sub(div(pairData.weightOut,
                          add(pairData.weightIn, pairData.weightOut)),
                      DecInt(1))
  IN mul(pairData.balanceIn,
         sub(pow(div(desiredSpotPrice, spotPrice), exponent), ONE))

\* token index i of the code is position i + 1 of the model's sequences
poolPairData(pool, inputTokenIndex, outputTokenIndex) ==
  [ id |-> pool.id,
    swapFee |-> fromFp(pool.swapFee),
    tokenIn |-> pool.tokens[inputTokenIndex + 1],
    balanceIn |-> fromFpDecimals(pool.balances[inputTokenIndex + 1], 18),
    weightIn |-> fromFp(pool.weights[inputTokenIndex + 1]),
    tokenOut |-> pool.tokens[outputTokenIndex + 1],
    balanceOut |-> fromFpDecimals(pool.balances[outputTokenIndex + 1], 18),
    weightOut |-> fromFp(pool.weights[outputTokenIndex + 1]) ]

\* the expression below the return of getExtraAmountIn
extraAmountInTerm(p, currentSpotPrice, amountIn, desiredSpotPrice) ==
  LET swapFeeComplement == sub(ONE, p.swapFee)
  IN div(mul(add(mul(swapFeeComplement, amountIn), p.balanceIn),
             sub(desiredSpotPrice, currentSpotPrice)),
         mul(currentSpotPrice,
             add(div(mul(p.swapFee, p.balanceIn), add(amountIn, p.balanceIn)),
                 mul(swapFeeComplement, add(div(p.weightIn, p.weightOut), ONE)))))

\* "return" alone on its line ends the statement: the function returns
\* undefined and the expression below it is never evaluated
getExtraAmountIn(p, currentSpotPrice, amountIn, desiredSpotPrice) ==
  Undefined

\* the loop counter of getAmountInForSpotPrice: "let i;" leaves it undefined
LoopCounterInit == [t |-> "undefined", v |-> 0]

\* i < numIterations: undefined and NaN convert to NaN, and NaN < n is false
JsLess(i, n) == i.t = "number" /\ i.v < n

\* i++
JsIncrement(i) ==
  IF i.t = "number" THEN [i EXCEPT !.v = i.v + 1] ELSE [t |-> "NaN", v |-> 0]

RECURSIVE RefineLoop(_, _, _, _, _, _)
RefineLoop(i, numIterations, pair, desiredSpotPrice, amountIn, spotPriceAfter) ==
  IF ~JsLess(i, numIterations) THEN amountIn
  ELSE LET extraAmountIn ==
             getExtraAmountIn(pair, spotPriceAfter, amountIn, desiredSpotPrice)
           next == add(amountIn, extraAmountIn)
       IN IF next.k = "throw" THEN next
          ELSE RefineLoop(JsIncrement(i), numIterations, pair, desiredSpotPrice,
                          next,
                          _spotPriceAfterSwapTokenInForExactTokenOut(next, pair))

\* how many times the body of that loop runs
RECURSIVE RefineSteps(_, _, _, _, _, _)
RefineSteps(i, numIterations, pair, desiredSpotPrice, amountIn, spotPriceAfter) ==
  IF ~JsLess(i, numIterations) THEN 0
  ELSE LET extraAmountIn ==
             getExtraAmountIn(pair, spotPriceAfter, amountIn, desiredSpotPrice)
           next == add(amountIn, extraAmountIn)
       IN IF next.k = "throw" THEN 1
          ELSE 1 + RefineSteps(JsIncrement(i), numIterations, pair,
                               desiredSpotPrice, next,
                               _spotPriceAfterSwapTokenInForExactTokenOut(next, pair))

\* the refinement steps getAmountInForSpotPrice performs before it returns
refinementSteps(pair, desiredSpotPrice, numIterations) ==
  LET amountIn == getAmountInForSpotPriceAfterSwapNoFees(pair, desiredSpotPrice)
      spotPriceAfter == _spotPriceAfterSwapTokenInForExactTokenOut(amountIn, pair)
  IN RefineSteps(LoopCounterInit, numIterations, pair, desiredSpotPrice,
                 amountIn, spotPriceAfter)

getAmountInForSpotPrice(pair, desiredSpotPrice, numIterations) ==
  LET amountIn == getAmountInForSpotPriceAfterSwapNoFees(pair, desiredSpotPrice)
      spotPriceAfter == _spotPriceAfterSwapTokenInForExactTokenOut(amountIn, pair)
  IN RefineLoop(LoopCounterInit, numIterations, pair, desiredSpotPrice,
                amountIn, spotPriceAfter)

\* new Decimal((marketPrices[tokenIn] / marketPrices[tokenOut]).toString()):
\* a double quotient printed with the shortest digits that read back to it,
\* which is the exact quotient whenever that has at most 15 digits
MaxSafeDigits == 15

marketRatio(marketPrices, pairData) ==
  LET a == marketPrices[pairData.tokenIn]
      b == marketPrices[pairData.tokenOut]
      q == Dec(a, b)
  IN IF IsFin(q) /\ SigDigits(Abs(q.n), q.d) <= MaxSafeDigits THEN q
     ELSE Inexact

NUM_ITERATIONS == 10

\* the direction test of identifyArbitrageOpp
NeedsSwitch(desiredSpotPrice, spotPrice) == JsGreater(desiredSpotPrice, spotPrice)

identifyArbitrageOpp(marketPrices, pool, poolTokens) ==
  LET pairData0 == poolPairData(pool, 0, 1)
      spotPrice == getSpotPrice(pairData0)
      desired0 == marketRatio(marketPrices, pairData0)
      switch == NeedsSwitch(desired0, spotPrice)
      assetInIndex == IF switch THEN 1 ELSE 0
      assetOutIndex == IF switch THEN 0 ELSE 1
      pairData == IF switch THEN poolPairData(pool, 1, 0) ELSE pairData0
      desiredSpotPrice ==
        IF switch THEN marketRatio(marketPrices, pairData) ELSE desired0
      amountDecimal ==
        getAmountInForSpotPrice(pairData, desiredSpotPrice, NUM_ITERATIONS)
      amount == fp(amountDecimal)
  IN [ poolId |-> pool.id,
       assetInIndex |-> assetInIndex,
       assetOutIndex |-> assetOutIndex,
       amount |-> amount,
       userData |-> "0x" ]

\* ------------------------------------------------------------------------
\* CopperLBPLauncher.sol : manager handover and fee recipient
\* ------------------------------------------------------------------------
NumAccounts == 2
MaxTimelocks == 2
MaxTime == 3
MaxDelay == 3

\* Time required to change the fee recipient (3 days; the model counts days)
MIN_TIMELOCK_DELAY == 3

ZERO_ADDRESS == 0

\* externally owned accounts; account 1 deploys the launcher
Accounts == 1..NumAccounts

Deployer == ZERO_ADDRESS + 1

\* the address of the k-th TimelockController the launcher deployed
TimelockAddress(k) == NumAccounts + k

\* the operations the model schedules: changeFeeRecipient(r) on the launcher,
\* no predecessor, salt 0, for r the account after the deployer
ScheduledRecipients == {Deployer + 1}

NoOperation == [state |-> "unset", ready |-> 0]

\* variant: the redeployed timelock stays with the deployer
NewTimelock_deployerOwned(owner) ==
  [ deployed |-> TRUE, minDelay |-> MIN_TIMELOCK_DELAY,
    proposer |-> Deployer, executor |-> Deployer,
    ops |-> [r \in ScheduledRecipients |-> NoOperation] ]

\* new TimelockController(MIN_TIMELOCK_DELAY, [owner], [owner])
NewTimelock(owner) ==
  [ deployed |-> TRUE, minDelay |-> MIN_TIMELOCK_DELAY,
    proposer |-> owner, executor |-> owner,
    ops |-> [r \in ScheduledRecipients |-> NoOperation] ]

NotDeployed ==
  [ deployed |-> FALSE, minDelay |-> 0,
    proposer |-> ZERO_ADDRESS, executor |-> ZERO_ADDRESS,
    ops |-> [r \in ScheduledRecipients |-> NoOperation] ]

getManager == _manager

getTimelockController == TimelockAddress(_timelockController)

getFeeRecipient == _feeRecipient

\* the transaction just mined: a reverted one leaves only its sender and its
\* revert reason behind
Call(op, sender, arg, timelock, outcome) ==
  [op |-> op, sender |-> sender,
   arg |-> IF outcome = "ok" THEN arg ELSE ZERO_ADDRESS,
   timelock |-> IF outcome = "ok" THEN timelock ELSE 0,
   outcome |-> outcome]

Reverted == lastCall.outcome # "ok"

\* constructor: _feeRecipient = feeRecipient; _setManager(msg.sender)
LauncherConstructed(feeRecipient) ==
  /\ _manager = Deployer
  /\ _managerCandidate = ZERO_ADDRESS
  /\ _feeRecipient = feeRecipient
  /\ _timelockController = 1
  /\ timelocks = [k \in 1..MaxTimelocks |->
                    IF k = 1 THEN NewTimelock(Deployer) ELSE NotDeployed]
  /\ now = 0
  /\ nomination = [by |-> ZERO_ADDRESS, who |-> ZERO_ADDRESS]
  /\ lastCall = Call("constructor", Deployer, feeRecipient, 0, "ok")

\* modifier onlyManager
onlyManager(sender) == getManager = sender

transferOwnership(sender, newManager) ==
  IF ~onlyManager(sender)
  THEN /\ lastCall' = Call("transferOwnership", sender, newManager, 0,
                           "Caller is not manager")
       /\ UNCHANGED <<_manager, _managerCandidate, _feeRecipient,
                      _timelockController, timelocks, now, nomination>>
  ELSE /\ _managerCandidate' = newManager
       /\ nomination' = [by |-> sender, who |-> newManager]
       /\ lastCall' = Call("transferOwnership", sender, newManager, 0, "ok")
       /\ UNCHANGED <<_manager, _feeRecipient, _timelockController,
                      timelocks, now>>

\* variant: any caller may claim
isCandidate_anySender(sender) == sender # ZERO_ADDRESS

\* the require of claimOwnership
isCandidate(sender) == _managerCandidate = sender

\* _setManager(owner) followed by the reset of the candidate
claimOwnership(sender) ==
  IF ~isCandidate(sender)
  THEN /\ lastCall' = Call("claimOwnership", sender, 0, 0, "Sender not allowed")
       /\ UNCHANGED <<_manager, _managerCandidate, _feeRecipient,
                      _timelockController, timelocks, now, nomination>>
  ELSE /\ _timelockController < MaxTimelocks
       /\ _manager' = _managerCandidate
       /\ _timelockController' = _timelockController + 1
       /\ timelocks' = [timelocks EXCEPT
                          ![_timelockController + 1] = NewTimelock(_managerCandidate)]
       /\ _managerCandidate' = ZERO_ADDRESS
       /\ nomination' = [by |-> ZERO_ADDRESS, who |-> ZERO_ADDRESS]
       /\ lastCall' = Call("claimOwnership", sender, 0, 0, "ok")
       /\ UNCHANGED <<_feeRecipient, now>>

\* variant: every timelock the launcher ever deployed is accepted
isTimelock_anyDeployed(sender) ==
  \E k \in 1.._timelockController : sender = TimelockAddress(k)

\* the require of changeFeeRecipient
isTimelock(sender) == sender = getTimelockController

\* changeFeeRecipient called directly in a transaction of an account
changeFeeRecipient(sender, newRecipient) ==
  IF ~isTimelock(sender)
  THEN /\ lastCall' = Call("changeFeeRecipient", sender, newRecipient, 0,
                           "Must use timelock")
       /\ UNCHANGED <<_manager, _managerCandidate, _feeRecipient,
                      _timelockController, timelocks, now, nomination>>
  ELSE /\ _feeRecipient' = newRecipient
       /\ lastCall' = Call("changeFeeRecipient", sender, newRecipient, 0, "ok")
       /\ UNCHANGED <<_manager, _managerCandidate, _timelockController,
                      timelocks, now, nomination>>

\* a transaction on a TimelockController: a reverted one leaves only its
\* revert reason behind
TimelockCall(op, sender, arg, timelock, outcome) ==
  Call(op, IF outcome = "ok" THEN sender ELSE ZERO_ADDRESS, arg, timelock,
       outcome)

\* who sends transactions to TimelockController k: its owner and one other
\* account (every other account is turned away the same way)
Callers(k) ==
  {timelocks[k].proposer,
   CHOOSE a \in Accounts : a # timelocks[k].proposer}

\* the delays a proposer asks for: one too short, and the sufficient ones
Delays == (MIN_TIMELOCK_DELAY - 1)..MaxDelay

\* TimelockController k: schedule(launcher, 0, changeFeeRecipient(r), 0, 0, delay)
schedule(sender, k, newRecipient, delay) ==
  LET t == timelocks[k]
      outcome ==
        IF sender # t.proposer THEN "AccessControl: missing role"
        ELSE IF t.ops[newRecipient].state # "unset"
             THEN "TimelockController: operation already scheduled"
        ELSE IF delay < t.minDelay
             THEN "TimelockController: insufficient delay"
        ELSE "ok"
  IN /\ t.deployed
     /\ outcome = "ok" => now + delay <= MaxTime
     /\ lastCall' = TimelockCall("schedule", sender, newRecipient, k, outcome)
     /\ timelocks' =
          IF outcome = "ok"
          THEN [timelocks EXCEPT ![k].ops[newRecipient] =
                  [state |-> "pending", ready |-> now + delay]]
          ELSE timelocks
     /\ UNCHANGED <<_manager, _managerCandidate, _feeRecipient,
                    _timelockController, now, nomination>>

\* isOperationReady
isOperationReady(k, newRecipient) ==
  /\ timelocks[k].ops[newRecipient].state = "pending"
  /\ timelocks[k].ops[newRecipient].ready <= now

\* TimelockController k: execute(launcher, 0, changeFeeRecipient(r), 0, 0);
\* the timelock is the msg.sender of the call it makes on the launcher
execute(sender, k, newRecipient) ==
  LET t == timelocks[k]
      outcome ==
        IF sender # t.executor THEN "AccessControl: missing role"
        ELSE IF ~isOperationReady(k, newRecipient)
             THEN "TimelockController: operation is not ready"
        ELSE IF ~isTimelock(TimelockAddress(k))
             THEN "TimelockController: underlying transaction reverted"
        ELSE "ok"
  IN /\ t.deployed
     /\ lastCall' = TimelockCall("execute", sender, newRecipient, k, outcome)
     /\ IF outcome = "ok"
        THEN /\ _feeRecipient' = newRecipient
             /\ timelocks' = [timelocks EXCEPT
                                ![k].ops[newRecipient].state = "done"]
        ELSE UNCHANGED <<_feeRecipient, timelocks>>
     /\ UNCHANGED <<_manager, _managerCandidate, _timelockController, now,
                    nomination>>

\* TimelockController k: cancel(id)
cancel(sender, k, newRecipient) ==
  LET t == timelocks[k]
      outcome ==
        IF sender # t.proposer THEN "AccessControl: missing role"
        ELSE IF t.ops[newRecipient].state # "pending"
             THEN "TimelockController: operation cannot be cancelled"
        ELSE "ok"
  IN /\ t.deployed
     /\ lastCall' = TimelockCall("cancel", sender, newRecipient, k, outcome)
     /\ timelocks' =
          IF outcome = "ok"
          THEN [timelocks EXCEPT ![k].ops[newRecipient] = NoOperation]
          ELSE timelocks
     /\ UNCHANGED <<_manager, _managerCandidate, _feeRecipient,
                    _timelockController, now, nomination>>

\* a day passes
advanceTime ==
  /\ now < MaxTime
  /\ now' = now + 1
  /\ lastCall' = Call("advanceTime", ZERO_ADDRESS, 0, 0, "ok")
  /\ UNCHANGED <<_manager, _managerCandidate, _feeRecipient,
                 _timelockController, timelocks, nomination>>

\* ------------------------------------------------------------------------
\* CopperLBPLauncher.sol : auctions
\* ------------------------------------------------------------------------
MaxPools == 2
MaxPoolBalance == 4
MaxStray == 1
MaxDecimalsDifference == 1

\* 1 days; auction times count half days
MINIMUM_LBP_DURATION == 2

\* the address of the i-th LBP the factory deploys
PoolAddress(i) == NumAccounts + MaxTimelocks + i

PoolAddresses == {PoolAddress(i) : i \in 1..MaxPools}

LauncherAddress == NumAccounts + MaxTimelocks + MaxPools + 1

VaultAddress == LauncherAddress + 1

\* ERC20 tokens: token t has 18 - t decimals
Erc20s == 0..MaxDecimalsDifference

decimals(t) == 18 - t

PoolData(owner, ownerCandidate, fundTokenIndex, fundTokenSeedAmount) ==
  [ owner |-> owner, ownerCandidate |-> ownerCandidate,
    fundTokenIndex |-> fundTokenIndex,
    fundTokenSeedAmount |-> fundTokenSeedAmount ]

\* a slot of the _poolData mapping that was never written
NoPoolData == PoolData(ZERO_ADDRESS, ZERO_ADDRESS, 0, 0)

\* BPT the launcher receives for the initial join
InitialBpt == 2

NoLbp ==
  [ deployed |-> FALSE, swapEnabled |-> FALSE, tokens |-> <<>>,
    startTime |-> 0, endTime |-> 0, endWeights |-> <<>>,
    balances |-> <<>>, bpt |-> 0 ]

\* ERC20 Transfer
Transfer(token, from, to, amount) ==
  [token |-> token, from |-> from, to |-> to, amount |-> amount]

PoolCall(op, sender, pool, arg, outcome, moved) ==
  [ op |-> op, sender |-> sender, pool |-> pool, arg |-> arg,
    outcome |-> outcome, moved |-> moved ]

NoPoolCall == PoolCall("none", ZERO_ADDRESS, ZERO_ADDRESS, <<>>, "ok", <<>>)

\* a reverted transaction moves nothing
PoolRevert(op, sender, pool, arg, reason) ==
  /\ poolCall' = PoolCall(op, sender, pool, arg, reason, <<>>)
  /\ UNCHANGED <<_pools, _poolData, lbps, held, exitFeePercentage>>

\* FixedPoint: the 18-decimal number n * 1e18 / d, for d a divisor of 1e18
FixedPoint(n, d) == [n |-> n, d |-> d]

\* FixedPoint.mulDown(a, b) = a * b / 1e18
mulDown(a, b) == (a * b.n) \div b.d

\* FixedPoint.divDown(a, b) = a * 1e18 / b
divDown(a, b) == IF a = 0 THEN 0 ELSE (a * b.d) \div b.n

\* the percentages a launcher or a distributor is deployed with
FeePercentages == {FixedPoint(0, 1), FixedPoint(3, 10), FixedPoint(1, 2)}

\* ScalingMath.computeScalingFactor: FixedPoint.ONE * 10**(18 - decimals)
computeScalingFactor(token) == FixedPoint(IntPow(10, 18 - decimals(token)), 1)

\* ScalingMath.upscale
upscale(amount, scalingFactor) == mulDown(amount, scalingFactor)

\* ScalingMath.downscale
downscale(amount, scalingFactor) == divDown(amount, scalingFactor)

\* no pool was created yet
NoPools ==
  /\ _pools = <<>>
  /\ _poolData = [p \in PoolAddresses |-> NoPoolData]
  /\ lbps = [p \in PoolAddresses |-> NoLbp]
  /\ held = [t \in Erc20s |-> 0]
  /\ poolCall = NoPoolCall

\* EnumerableSet.contains
isPool(pool) == \E i \in 1..Len(_pools) : _pools[i] = pool

poolCount == Len(_pools)

Returned(value) == [outcome |-> "ok", value |-> value]

ViewRevert(reason) == [outcome |-> reason, value |-> 0]

getPoolAt(index) ==
  IF ~(index < Len(_pools)) THEN ViewRevert("Invalid pool index")
  ELSE Returned(_pools[index + 1])

getPools == [i \in 1..Len(_pools) |-> _pools[i]]

getPoolData(pool) ==
  IF ~isPool(pool) THEN ViewRevert("Invalid pool address")
  ELSE Returned(_poolData[pool])

getBPTTokenBalance(pool) ==
  IF ~isPool(pool) THEN ViewRevert("Invalid pool address")
  ELSE Returned(lbps[pool].bpt)

\* steps 1, 3 and 5 of createAuction: the LBP after create (swaps disabled),
\* the initial join and updateWeightsGradually
launchedLbp(poolConfig) ==
  [ deployed |-> TRUE, swapEnabled |-> FALSE,
    tokens |-> poolConfig.tokens,
    startTime |-> poolConfig.startTime,
    endTime |-> poolConfig.endTime,
    endWeights |-> poolConfig.endWeights,
    balances |-> poolConfig.amounts,
    bpt |-> InitialBpt ]

\* variant: the seed amount is read at the project token's index
recorded_projectAmount(poolConfig) ==
  PoolData(poolConfig.owner, ZERO_ADDRESS, poolConfig.fundTokenIndex,
           poolConfig.amounts[2 - poolConfig.fundTokenIndex])

\* step 4 of createAuction: the PoolData written to the mapping
recorded(poolConfig) ==
  PoolData(poolConfig.owner, ZERO_ADDRESS, poolConfig.fundTokenIndex,
           poolConfig.amounts[poolConfig.fundTokenIndex + 1])

\* variant: the times are checked before the lengths
createAuctionOutcome_timesFirst(sender, poolConfig) ==
  IF ~onlyManager(sender) THEN "Caller is not manager"
  ELSE IF ~(poolConfig.startTime < poolConfig.endTime)
       THEN "Invalid LBP times"
  ELSE IF ~(poolConfig.endTime - poolConfig.startTime >= MINIMUM_LBP_DURATION)
       THEN "LBP duration too short"
  ELSE IF Len(poolConfig.tokens) # 2 THEN "Only 2-token LBPs"
  ELSE IF Len(poolConfig.endWeights) # 2 THEN "Length mismatch"
  ELSE "ok"

\* the requires of createAuction, in the order of the code
createAuctionOutcome(sender, poolConfig) ==
  IF ~onlyManager(sender) THEN "Caller is not manager"
  ELSE IF Len(poolConfig.tokens) # 2 THEN "Only 2-token LBPs"
  ELSE IF Len(poolConfig.endWeights) # 2 THEN "Length mismatch"
  ELSE IF ~(poolConfig.startTime < poolConfig.endTime)
       THEN "Invalid LBP times"
  ELSE IF ~(poolConfig.endTime - poolConfig.startTime >= MINIMUM_LBP_DURATION)
       THEN "LBP duration too short"
  ELSE "ok"

\* what the onlyManager modifier lets through to the body
SeenConfig(sender, poolConfig) ==
  IF onlyManager(sender) THEN poolConfig ELSE <<>>

\* step 2 and 3 of createAuction: the deposit is pulled from the owner and
\* joins the pool through the Vault
seedTransfers(poolConfig) ==
  LET fundTokenAmount == poolConfig.amounts[poolConfig.fundTokenIndex + 1]
      projectTokenIndex == IF 0 = poolConfig.fundTokenIndex THEN 1 ELSE 0
      fundToken == poolConfig.tokens[poolConfig.fundTokenIndex + 1]
      projectToken == poolConfig.tokens[projectTokenIndex + 1]
      projectTokenAmount == poolConfig.amounts[projectTokenIndex + 1]
  IN << Transfer(fundToken, poolConfig.owner, LauncherAddress,
                 fundTokenAmount),
        Transfer(projectToken, poolConfig.owner, LauncherAddress,
                 projectTokenAmount),
        Transfer(poolConfig.tokens[1], LauncherAddress, VaultAddress,
                 poolConfig.amounts[1]),
        Transfer(poolConfig.tokens[2], LauncherAddress, VaultAddress,
                 poolConfig.amounts[2]) >>

createAuction(sender, poolConfig) ==
  LET outcome == createAuctionOutcome(sender, poolConfig)
      pool == PoolAddress(Len(_pools) + 1)
  IN IF outcome # "ok"
     THEN PoolRevert("createAuction", sender, ZERO_ADDRESS,
                     SeenConfig(sender, poolConfig), outcome)
     ELSE /\ Len(_pools) < MaxPools
          /\ lbps' = [lbps EXCEPT ![pool] = launchedLbp(poolConfig)]
          /\ _poolData' = [_poolData EXCEPT ![pool] = recorded(poolConfig)]
          /\ _pools' = Append(_pools, pool)
          /\ poolCall' = PoolCall("createAuction", sender, pool, poolConfig,
                                  "ok", seedTransfers(poolConfig))
          /\ UNCHANGED <<held, exitFeePercentage>>

\* ------------------------------------------------------------------------
\* CopperLBPLauncher.sol : pool owners
\* ------------------------------------------------------------------------
\* variant: the launcher's manager passes as well
onlyPoolOwner_managerToo(sender, pool) ==
  IF ~isPool(pool) THEN "Invalid pool address"
  ELSE IF ~(sender = _poolData[pool].owner \/ sender = _manager)
       THEN "Caller is not pool owner"
  ELSE "ok"

\* modifier onlyPoolOwner: the reason it reverts with, "ok" if it does not
onlyPoolOwner(sender, pool) ==
  IF ~isPool(pool) THEN "Invalid pool address"
  ELSE IF ~(sender = _poolData[pool].owner) THEN "Caller is not pool owner"
  ELSE "ok"

setSwapEnabled(sender, pool, swapEnabled) ==
  LET outcome == onlyPoolOwner(sender, pool)
  IN IF outcome # "ok"
     THEN PoolRevert("setSwapEnabled", sender, pool, <<>>, outcome)
     ELSE /\ lbps' = [lbps EXCEPT ![pool].swapEnabled = swapEnabled]
          /\ poolCall' = PoolCall("setSwapEnabled", sender, pool, swapEnabled,
                                  "ok", <<>>)
          /\ UNCHANGED <<_pools, _poolData, held, exitFeePercentage>>

transferPoolOwnership(sender, pool, newOwner) ==
  LET outcome == onlyPoolOwner(sender, pool)
  IN IF outcome # "ok"
     THEN PoolRevert("transferPoolOwnership", sender, pool, <<>>, outcome)
     ELSE /\ _poolData' = [_poolData EXCEPT ![pool].ownerCandidate = newOwner]
          /\ poolCall' = PoolCall("transferPoolOwnership", sender, pool,
                                  newOwner, "ok", <<>>)
          /\ UNCHANGED <<_pools, lbps, held, exitFeePercentage>>

\* variant: any sender may claim
isPoolCandidate_anySender(sender, data) == TRUE

\* the require of claimPoolOwnership
isPoolCandidate(sender, data) == sender = data.ownerCandidate

claimPoolOwnership(sender, pool) ==
  LET data == _poolData[pool]
  IN IF ~isPoolCandidate(sender, data)
     THEN PoolRevert("claimPoolOwnership", sender, pool, <<>>,
                     "Sender not allowed")
     ELSE /\ _poolData' = [_poolData EXCEPT
                             ![pool].owner = data.ownerCandidate,
                             ![pool].ownerCandidate = ZERO_ADDRESS]
          /\ poolCall' = PoolCall("claimPoolOwnership", sender, pool, <<>>,
                                  "ok", <<>>)
          /\ UNCHANGED <<_pools, lbps, held, exitFeePercentage>>

\* _calculateBptAmountIn: the reason it reverts with, "ok" if it does not
bptAmountInOutcome(pool, maxBPTAmountIn) ==
  LET bptBalance == lbps[pool].bpt
      bptToBurn == IF 0 = maxBPTAmountIn THEN bptBalance ELSE maxBPTAmountIn
  IN IF ~(bptBalance > 0) THEN "BPT balance is zero"
     ELSE IF ~(bptToBurn <= bptBalance) THEN "Insufficient BPT balance"
     ELSE "ok"

_calculateBptAmountIn(pool, maxBPTAmountIn) ==
  IF 0 = maxBPTAmountIn THEN lbps[pool].bpt ELSE maxBPTAmountIn

\* Vault.exitPool, EXACT_BPT_IN_FOR_TOKENS_OUT: the proportional share of
\* every pool balance; the launcher holds the whole BPT supply
vaultExit(pool, bptToBurn) ==
  [i \in 1..2 |-> (lbps[pool].balances[i] * bptToBurn) \div lbps[pool].bpt]

\* _payExitFee: the fee transferred to the fee recipient, 0 if none is;
\* balanceOf is the launcher's balance after the Vault paid out
exitFeeAmount(fundToken, balanceOf, poolData) ==
  LET scalingFactor == computeScalingFactor(fundToken)
      fundTokenBalance == upscale(balanceOf[fundToken], scalingFactor)
      seedAmount == upscale(poolData.fundTokenSeedAmount, scalingFactor)
  IN IF fundTokenBalance > seedAmount
     THEN downscale(mulDown(fundTokenBalance - seedAmount, exitFeePercentage),
                    scalingFactor)
     ELSE 0

\* variant: a fee is paid as soon as the seed amount is recovered
paysExitFee_seedReached(fundToken, balanceOf, poolData) ==
  LET scalingFactor == computeScalingFactor(fundToken)
  IN upscale(balanceOf[fundToken], scalingFactor)
       >= upscale(poolData.fundTokenSeedAmount, scalingFactor)

\* _payExitFee: whether the fund token balance exceeds the seed amount
paysExitFee(fundToken, balanceOf, poolData) ==
  LET scalingFactor == computeScalingFactor(fundToken)
  IN upscale(balanceOf[fundToken], scalingFactor)
       > upscale(poolData.fundTokenSeedAmount, scalingFactor)

exitPool(sender, pool, maxBPTAmountIn) ==
  LET owned == onlyPoolOwner(sender, pool)
      outcome == IF owned # "ok" THEN owned
                 ELSE bptAmountInOutcome(pool, maxBPTAmountIn)
      poolData == _poolData[pool]
      poolTokens == lbps[pool].tokens
      bptToBurn == _calculateBptAmountIn(pool, maxBPTAmountIn)
      amountsOut == vaultExit(pool, bptToBurn)
      fundToken == poolTokens[poolData.fundTokenIndex + 1]
      projectTokenIndex == IF 0 = poolData.fundTokenIndex THEN 1 ELSE 0
      projectToken == poolTokens[projectTokenIndex + 1]
      afterExit == [t \in Erc20s |->
                      held[t]
                      + (IF t = poolTokens[1] THEN amountsOut[1] ELSE 0)
                      + (IF t = poolTokens[2] THEN amountsOut[2] ELSE 0)]
      feeAmount == exitFeeAmount(fundToken, afterExit, poolData)
      afterFee == [afterExit EXCEPT ![fundToken] = @ - feeAmount]
      feeTransfers ==
        IF paysExitFee(fundToken, afterExit, poolData)
        THEN <<Transfer(fundToken, LauncherAddress, _feeRecipient, feeAmount)>>
        ELSE <<>>
  IN IF outcome # "ok"
     THEN PoolRevert("exitPool", sender, pool, <<>>, outcome)
     ELSE /\ lbps' = [lbps EXCEPT
                        ![pool].bpt = @ - bptToBurn,
                        ![pool].balances =
                          [i \in 1..2 |-> @[i] - amountsOut[i]]]
          /\ held' = [afterFee EXCEPT ![fundToken] = 0, ![projectToken] = 0]
          /\ poolCall' =
               PoolCall("exitPool", sender, pool, maxBPTAmountIn, "ok",
                 << Transfer(poolTokens[1], VaultAddress, LauncherAddress,
                             amountsOut[1]),
                    Transfer(poolTokens[2], VaultAddress, LauncherAddress,
                             amountsOut[2]) >>
                 \o feeTransfers
                 \o << Transfer(fundToken, LauncherAddress, sender,
                                afterFee[fundToken]),
                       Transfer(projectToken, LauncherAddress, sender,
                                afterFee[projectToken]) >>)
          /\ UNCHANGED <<_pools, _poolData, exitFeePercentage>>

\* the fee exitPool(pool, minAmountsOut, 0) pays in the current state: the
\* vault exit of all the BPT, then _payExitFee
fullExitFee(pool) ==
  IF lbps[pool].bpt = 0 THEN 0
  ELSE LET poolData == _poolData[pool]
           poolTokens == lbps[pool].tokens
           amountsOut == vaultExit(pool, _calculateBptAmountIn(pool, 0))
           fundToken == poolTokens[poolData.fundTokenIndex + 1]
           afterExit == [t \in Erc20s |->
                           held[t]
                           + (IF t = poolTokens[1] THEN amountsOut[1] ELSE 0)
                           + (IF t = poolTokens[2] THEN amountsOut[2] ELSE 0)]
       IN exitFeeAmount(fundToken, afterExit, poolData)

\* a trader swaps one unit of one pool token for one unit of the other
lbpSwap(pool, tokenInIndex) ==
  LET i == tokenInIndex + 1
      o == IF i = 1 THEN 2 ELSE 1
  IN /\ isPool(pool)
     /\ lbps[pool].swapEnabled
     /\ lbps[pool].bpt > 0
     /\ lbps[pool].balances[o] > 1
     /\ lbps[pool].balances[i] < MaxPoolBalance
     /\ lbps' = [lbps EXCEPT ![pool].balances =
                   [j \in 1..2 |-> IF j = i THEN @[j] + 1 ELSE @[j] - 1]]
     /\ poolCall' = PoolCall("swap", ZERO_ADDRESS, pool, tokenInIndex, "ok",
                             <<>>)
     /\ UNCHANGED <<_pools, _poolData, held, exitFeePercentage>>

\* an account transfers one unit of a token to the launcher
donate(token) ==
  /\ \A t \in Erc20s : held[t] < MaxStray
  /\ held' = [held EXCEPT ![token] = @ + 1]
  /\ poolCall' = PoolCall("donate", ZERO_ADDRESS, ZERO_ADDRESS, token, "ok",
                          <<>>)
  /\ UNCHANGED <<_pools, _poolData, lbps, exitFeePercentage>>

\* ------------------------------------------------------------------------
\* BalancerRevenueShareDistributor.sol
\* ------------------------------------------------------------------------
MaxRevenue == 3

\* IVault(VAULT).getProtocolFeesCollector()
ProtocolFeesCollector == VaultAddress + 1

DistributorAddress == VaultAddress + 2

\* revenue shares: 0 %, 50 %, 100 % and, above FixedPoint.ONE, 110 %
SharePercentages ==
  {FixedPoint(0, 1), FixedPoint(1, 2), FixedPoint(1, 1), FixedPoint(11, 10)}

PartnerNames == {"Copper", "Partner"}

NoDistributor ==
  [ deployed |-> FALSE,
    protocolFeeRecipient |-> ZERO_ADDRESS,
    partnerFeeRecipient |-> ZERO_ADDRESS,
    partnerRevenueSharePct |-> FixedPoint(0, 1),
    partnerName |-> "" ]

DistributorCall(op, arg, outcome, moved, emitted) ==
  [ op |-> op, arg |-> arg, outcome |-> outcome, moved |-> moved,
    emitted |-> emitted ]

NoDistributorCall == DistributorCall("none", <<>>, "ok", <<>>, <<>>)

\* no distributor was deployed yet
DistributorIdle ==
  /\ distributor = NoDistributor
  /\ distributorBalance = [t \in Erc20s |-> 0]
  /\ distributorCall = NoDistributorCall

\* variant: a share of FixedPoint.ONE is refused
validShare_belowOne(partnerSharePct) ==
  partnerSharePct.n >= 0 /\ partnerSharePct.n < partnerSharePct.d

\* constructor: partnerSharePct >= 0 && partnerSharePct <= FixedPoint.ONE
validShare(partnerSharePct) ==
  partnerSharePct.n >= 0 /\ partnerSharePct.n <= partnerSharePct.d

ConstructorArgs(balancerAddress, partnerAddress, partnerSharePct, name) ==
  [ balancerAddress |-> balancerAddress, partnerAddress |-> partnerAddress,
    partnerSharePct |-> partnerSharePct, name |-> name ]

NewRevenueShareDistributor(feeRecipient, partnerAddress, partnerSharePct, name) ==
  [ event |-> "NewRevenueShareDistributor", balancerAddress |-> feeRecipient,
    recipientAddress |-> partnerAddress, revenueSharePct |-> partnerSharePct,
    partner |-> name ]

\* constructor of BalancerRevenueShareDistributor
deployDistributor(balancerAddress, partnerAddress, partnerSharePct, name) ==
  LET a == ConstructorArgs(balancerAddress, partnerAddress, partnerSharePct,
                           name)
      feeRecipient == IF balancerAddress = ZERO_ADDRESS
                      THEN ProtocolFeesCollector
                      ELSE balancerAddress
  IN /\ ~distributor.deployed
     /\ IF ~validShare(partnerSharePct)
        THEN /\ distributorCall' =
                  DistributorCall("constructor", a, "Invalid revenue share",
                                  <<>>, <<>>)
             /\ UNCHANGED <<distributor, distributorBalance>>
        ELSE /\ distributor' =
                  [ deployed |-> TRUE,
                    protocolFeeRecipient |-> feeRecipient,
                    partnerFeeRecipient |-> partnerAddress,
                    partnerRevenueSharePct |-> partnerSharePct,
                    partnerName |-> name ]
             /\ distributorCall' =
                  DistributorCall("constructor", a, "ok", <<>>,
                    <<NewRevenueShareDistributor(feeRecipient, partnerAddress,
                                                 partnerSharePct, name)>>)
             /\ UNCHANGED distributorBalance

\* variant: the share is rounded up
partnerShare_roundedUp(token, rawTokenBalance) ==
  LET scalingFactor == computeScalingFactor(token)
      scaled == upscale(rawTokenBalance, scalingFactor)
                  * distributor.partnerRevenueSharePct.n
      d == distributor.partnerRevenueSharePct.d
  IN downscale((scaled + d - 1) \div d, scalingFactor)

\* distributeRevenueShare: partnerRevenueShare
partnerShare(token, rawTokenBalance) ==
  LET scalingFactor == computeScalingFactor(token)
      scaledRevenueShare ==
        mulDown(upscale(rawTokenBalance, scalingFactor),
                distributor.partnerRevenueSharePct)
  IN downscale(scaledRevenueShare, scalingFactor)

RevenueSharesDistributed(recipient, token, amount) ==
  [ event |-> "RevenueSharesDistributed", recipient |-> recipient,
    token |-> token, amount |-> amount ]

distributeRevenueShare(token) ==
  LET rawTokenBalance == distributorBalance[token]
      partnerRevenueShare == partnerShare(token, rawTokenBalance)
      \* token.balanceOf(address(this)) after the first transfer
      remaining == rawTokenBalance - partnerRevenueShare
  IN /\ distributor.deployed
     /\ IF rawTokenBalance > 0
        THEN /\ distributorBalance' = [distributorBalance EXCEPT ![token] = 0]
             /\ distributorCall' =
                  DistributorCall("distributeRevenueShare", token, "ok",
                    << Transfer(token, DistributorAddress,
                                distributor.partnerFeeRecipient,
                                partnerRevenueShare),
                       Transfer(token, DistributorAddress,
                                distributor.protocolFeeRecipient, remaining) >>,
                    << RevenueSharesDistributed(
                         distributor.protocolFeeRecipient, token,
                         rawTokenBalance) >>)
        ELSE /\ distributorCall' =
                  DistributorCall("distributeRevenueShare", token, "ok",
                                  <<>>, <<>>)
             /\ UNCHANGED distributorBalance
     /\ UNCHANGED distributor

\* revenue arrives: an account transfers one unit of a token to the
\* distributor
receiveRevenue(token) ==
  /\ distributor.deployed
  /\ distributorBalance[token] < MaxRevenue
  /\ distributorBalance' = [distributorBalance EXCEPT ![token] = @ + 1]
  /\ distributorCall' = DistributorCall("transfer", token, "ok", <<>>, <<>>)
  /\ UNCHANGED distributor

\* ------------------------------------------------------------------------
\* PermissionedRegistry.sol and PermissionedPool.sol
\* ------------------------------------------------------------------------
MaxBpt == 2

\* the allowlist the pool was deployed with, and another one
PoolAllowlistId == 1

AllowlistIds == {PoolAllowlistId, PoolAllowlistId + 1}

Holders == Accounts \cup {ZERO_ADDRESS}

\* a call of the pool and its outcome; the pool reads the allowlist it was
\* deployed with
PermissionedCall(op, from, to, outcome) ==
  [op |-> op, from |-> from, to |-> to, outcome |-> outcome,
   allowlistId |-> PoolAllowlistId]

NoPermissionedCall ==
  PermissionedCall("none", ZERO_ADDRESS, ZERO_ADDRESS, "ok")

\* a registry call by msg.sender on an allowlist, about a member (none for
\* createAllowlist), and its outcome
RegistryCall(op, sender, allowlistId, member, outcome) ==
  [op |-> op, from |-> sender, to |-> member, outcome |-> outcome,
   allowlistId |-> allowlistId]

\* the registry and the pool right after their deployment in the test: the
\* deployer created the pool's allowlist, nobody is on it, no BPT exists
PermissionedDeployed(deployer) ==
  /\ _allowlistOwners = [id \in AllowlistIds |->
                           IF id = PoolAllowlistId THEN deployer
                           ELSE ZERO_ADDRESS]
  /\ _allowlists = [id \in AllowlistIds |-> {}]
  /\ bptBalances = [a \in Holders |-> 0]
  /\ paused = FALSE
  /\ permissionedCall = NoPermissionedCall

\* variant: an allowlist that has an owner is taken over
createAllowlist_takeover(sender, allowlistId) ==
  /\ _allowlistOwners' = [_allowlistOwners EXCEPT ![allowlistId] = sender]
  /\ permissionedCall' =
       RegistryCall("createAllowlist", sender, allowlistId, ZERO_ADDRESS, "ok")
  /\ UNCHANGED <<_allowlists, bptBalances, paused>>

createAllowlist(sender, allowlistId) ==
  IF ~(_allowlistOwners[allowlistId] = ZERO_ADDRESS)
  THEN /\ permissionedCall' =
            RegistryCall("createAllowlist", sender, allowlistId, ZERO_ADDRESS,
                         "allowlist already has an owner")
       /\ UNCHANGED <<_allowlistOwners, _allowlists, bptBalances, paused>>
  ELSE /\ _allowlistOwners' = [_allowlistOwners EXCEPT ![allowlistId] = sender]
       /\ permissionedCall' =
            RegistryCall("createAllowlist", sender, allowlistId, ZERO_ADDRESS,
                         "ok")
       /\ UNCHANGED <<_allowlists, bptBalances, paused>>

isAllowlisted(allowlistId, member) == member \in _allowlists[allowlistId]

addAllowedAddress(sender, allowlistId, member) ==
  LET outcome ==
        IF ~(_allowlistOwners[allowlistId] = sender)
        THEN "not allowlist owner"
        ELSE IF ~(~isAllowlisted(allowlistId, member))
             THEN "address already allowlisted"
        ELSE "ok"
  IN /\ permissionedCall' = RegistryCall("addAllowedAddress", sender,
                                         allowlistId, member, outcome)
     /\ _allowlists' = IF outcome = "ok"
                       THEN [_allowlists EXCEPT ![allowlistId] = @ \cup {member}]
                       ELSE _allowlists
     /\ UNCHANGED <<_allowlistOwners, bptBalances, paused>>

\* variant: any account removes a member
removeAllowedAddress_anySender(sender, allowlistId, member) ==
  /\ permissionedCall' = RegistryCall("removeAllowedAddress", sender,
                                      allowlistId, member, "ok")
  /\ _allowlists' = [_allowlists EXCEPT ![allowlistId] = @ \ {member}]
  /\ UNCHANGED <<_allowlistOwners, bptBalances, paused>>

removeAllowedAddress(sender, allowlistId, member) ==
  LET outcome ==
        IF ~(_allowlistOwners[allowlistId] = sender)
        THEN "not allowlist owner"
        ELSE "ok"
  IN /\ permissionedCall' = RegistryCall("removeAllowedAddress", sender,
                                         allowlistId, member, outcome)
     /\ _allowlists' = IF outcome = "ok"
                       THEN [_allowlists EXCEPT ![allowlistId] = @ \ {member}]
                       ELSE _allowlists
     /\ UNCHANGED <<_allowlistOwners, bptBalances, paused>>

\* variant: every address may hold BPT
canReceiveBPT_anyone(member) == TRUE

\* PermissionedPool.canReceiveBPT
canReceiveBPT(member) ==
  IF member = ZERO_ADDRESS THEN TRUE
  ELSE isAllowlisted(PoolAllowlistId, member)

\* variant: only the sender of the swap is looked up
isAllowedSwap_senderOnly(from, to) == isAllowlisted(PoolAllowlistId, from)

\* PermissionedPool.isAllowedSwap
isAllowedSwap(from, to) ==
  /\ isAllowlisted(PoolAllowlistId, from)
  /\ isAllowlisted(PoolAllowlistId, to)

\* modifier whenNotPaused (TemporarilyPausable): the reason it reverts with
whenNotPaused == IF paused THEN "BAL#402" ELSE "ok"

\* PermissionedPool._beforeTokenTransfer: the reason it reverts with
_beforeTokenTransfer(recipient) ==
  IF ~canReceiveBPT(recipient) THEN "Invalid bpt recipient" ELSE "ok"

\* the pool was initialized: the first join minted BPT to the zero address
initialized == bptBalances[ZERO_ADDRESS] > 0

\* Vault.joinPool(poolId, sender, recipient, request): _onJoinPool (or the
\* initialization of the pool), then one unit of BPT is minted to recipient;
\* the first join also mints the minimum BPT to the zero address
joinPool(sender, recipient) ==
  LET outcome == IF whenNotPaused # "ok" THEN whenNotPaused
                 ELSE IF ~initialized /\ _beforeTokenTransfer(ZERO_ADDRESS) # "ok"
                      THEN _beforeTokenTransfer(ZERO_ADDRESS)
                 ELSE _beforeTokenTransfer(recipient)
  IN /\ outcome = "ok" => bptBalances[recipient] < MaxBpt
     /\ permissionedCall' = PermissionedCall("joinPool", sender, recipient,
                                             outcome)
     /\ bptBalances' =
          IF outcome # "ok" THEN bptBalances
          ELSE [a \in Holders |->
                  bptBalances[a]
                  + (IF a = ZERO_ADDRESS /\ ~initialized THEN 1 ELSE 0)
                  + (IF a = recipient THEN 1 ELSE 0)]
     /\ UNCHANGED <<_allowlistOwners, _allowlists, paused>>

\* Vault.exitPool(poolId, sender, recipient, request): _onExitPool, then one
\* unit of the sender's BPT is burned
exitPermissionedPool(sender) ==
  LET outcome == _beforeTokenTransfer(ZERO_ADDRESS)
  IN /\ bptBalances[sender] > 0
     /\ permissionedCall' = PermissionedCall("exitPool", sender, ZERO_ADDRESS,
                                             outcome)
     /\ bptBalances' = IF outcome # "ok" THEN bptBalances
                      ELSE [bptBalances EXCEPT ![sender] = @ - 1]
     /\ UNCHANGED <<_allowlistOwners, _allowlists, paused>>

\* ERC20 transfer of one unit of BPT
transferBpt(sender, recipient) ==
  LET outcome == _beforeTokenTransfer(recipient)
  IN /\ bptBalances[sender] > 0
     /\ outcome = "ok" => (recipient = sender \/ bptBalances[recipient] < MaxBpt)
     /\ permissionedCall' = PermissionedCall("transfer", sender, recipient,
                                             outcome)
     /\ bptBalances' =
          IF outcome # "ok" THEN bptBalances
          ELSE [a \in Holders |->
                  bptBalances[a] - (IF a = sender THEN 1 ELSE 0)
                                + (IF a = recipient THEN 1 ELSE 0)]
     /\ UNCHANGED <<_allowlistOwners, _allowlists, paused>>

\* the outcome of _onSwapGivenIn and of _onSwapGivenOut
onSwapOutcome(from, to) ==
  IF whenNotPaused # "ok" THEN whenNotPaused
  ELSE IF ~isAllowedSwap(from, to) THEN "Swap not allowed"
  ELSE "ok"

_onSwapGivenIn(from, to) ==
  /\ initialized
  /\ permissionedCall' = PermissionedCall("swapGivenIn", from, to,
                                          onSwapOutcome(from, to))
  /\ UNCHANGED <<_allowlistOwners, _allowlists, bptBalances, paused>>

_onSwapGivenOut(from, to) ==
  /\ initialized
  /\ permissionedCall' = PermissionedCall("swapGivenOut", from, to,
                                          onSwapOutcome(from, to))
  /\ UNCHANGED <<_allowlistOwners, _allowlists, bptBalances, paused>>

\* BasePool.setPaused, by an authorized account
setPaused(p) ==
  /\ paused # p
  /\ paused' = p
  /\ permissionedCall' = PermissionedCall("setPaused", ZERO_ADDRESS,
                                          ZERO_ADDRESS, "ok")
  /\ UNCHANGED <<_allowlistOwners, _allowlists, bptBalances>>

\* ------------------------------------------------------------------------
\* CharityPool.sol
\* ------------------------------------------------------------------------
MaxCharityBalance == 4
MaxSwaps == 2

CharityPoolAddress == VaultAddress + 3

\* params.charity of the deployment
CharityAddress == VaultAddress + 4

\* POOL_SWAP_FEE_PERCENTAGE of the deployment
CharitySwapFee == FixedPoint(1, 100)

CharityCall(op, sender, outcome, burned, moved, to) ==
  [op |-> op, sender |-> sender, outcome |-> outcome, burned |-> burned,
   moved |-> moved, to |-> to]

NoCharityCall ==
  CharityCall("none", ZERO_ADDRESS, "ok", 0, <<0, 0>>, ZERO_ADDRESS)

\* the pool right after its deployment: no BPT exists, the Vault holds nothing
\* for it. ownBpt is balanceOf(address(this)), received is what the charity
\* address got of each token
CharityPoolDeployed ==
  /\ charityPool = [initialized |-> FALSE, swapFeePercentage |-> CharitySwapFee,
                    totalSupply |-> 0, ownBpt |-> 0, balances |-> <<0, 0>>,
                    received |-> <<0, 0>>, swaps |-> 0]
  /\ charityCall = NoCharityCall

\* CharityPool.payProtocolFees: internal, and no function of the contract or
\* of the pools it inherits from calls it
payProtocolFees(bptAmount) ==
  charityPool' = [charityPool EXCEPT !.ownBpt = @ + bptAmount,
                                     !.totalSupply = @ + bptAmount]

\* the first join of the pool (WeightedPool): the liquidity provider gets
\* the BPT
initializeCharityPool(sender, amountsIn) ==
  /\ ~charityPool.initialized
  /\ charityPool' = [charityPool EXCEPT !.initialized = TRUE,
                                        !.balances = amountsIn,
                                        !.totalSupply = amountsIn[1] + amountsIn[2]]
  /\ charityCall' = CharityCall("joinPool", sender, "ok", 0, <<0, 0>>, sender)

\* a swap through the Vault (WeightedPool.onSwap): the amount in, fee included,
\* joins the pool's balance and the amount out, any amount the weighted math
\* may give, leaves it; no BPT is minted
charitySwap(sender, tokenIn, amountIn, amountOut) ==
  LET tokenOut == 3 - tokenIn
  IN /\ charityPool.initialized
     /\ charityPool.swaps < MaxSwaps
     /\ charityPool.swapFeePercentage.n > 0
     /\ charityPool.balances[tokenIn] + amountIn <= MaxCharityBalance
     /\ amountOut < charityPool.balances[tokenOut]
     /\ charityPool' =
          [charityPool EXCEPT !.balances[tokenIn] = @ + amountIn,
                              !.balances[tokenOut] = @ - amountOut,
                              !.swaps = @ + 1]
     /\ charityCall' = CharityCall("swap", sender, "ok", 0, <<0, 0>>, sender)

\* WeightedMath._calcTokensOutGivenExactBptIn, for exit kind 2
tokensOutGivenExactBptIn(balances, bptIn, totalSupply) ==
  [i \in 1..2 |-> (balances[i] * bptIn) \div totalSupply]

\* CharityPool.payoutToCharity
payoutToCharity(sender) ==
  LET bptIn == charityPool.ownBpt
      amountsOut == tokensOutGivenExactBptIn(charityPool.balances, bptIn,
                                             charityPool.totalSupply)
  IN IF charityPool.totalSupply = 0
     THEN /\ charityCall' = CharityCall("payoutToCharity", sender, "BAL#004", 0,
                                        <<0, 0>>, CharityAddress)
          /\ UNCHANGED charityPool
     ELSE /\ charityPool' =
               [charityPool EXCEPT
                  !.ownBpt = @ - bptIn,
                  !.totalSupply = @ - bptIn,
                  !.balances = [i \in 1..2 |-> @[i] - amountsOut[i]],
                  !.received = [i \in 1..2 |-> @[i] + amountsOut[i]]]
          /\ charityCall' = CharityCall("payoutToCharity", sender, "ok", bptIn,
                                        amountsOut, CharityAddress)

\* ------------------------------------------------------------------------
\* ExamplePool.sol
\* ------------------------------------------------------------------------
MaxExampleTokens == 6
MaxTokenListLen == 4

_MAX_TOKENS == 3

\* BasePool._MIN_TOKENS
_MIN_TOKENS == 2

\* token addresses; token t has 18 - t decimals
ExampleTokens == 1..MaxExampleTokens

\* sorted lists of distinct tokens, as the Vault registers them
ExampleTokenLists ==
  { l \in UNION { [1..n -> ExampleTokens] : n \in 1..MaxTokenListLen } :
      \A i \in 1..(Len(l) - 1) : l[i] < l[i + 1] }

ExampleCall(op, arg, outcome, value) ==
  [op |-> op, arg |-> arg, outcome |-> outcome, value |-> value]

NoExampleCall == ExampleCall("none", <<>>, "ok", <<>>)

ExamplePoolNotDeployed ==
  /\ examplePool = [deployed |-> FALSE, _totalTokens |-> 0,
                    _token0 |-> ZERO_ADDRESS, _token1 |-> ZERO_ADDRESS,
                    _token2 |-> ZERO_ADDRESS,
                    _scalingFactor0 |-> 0, _scalingFactor1 |-> 0,
                    _scalingFactor2 |-> 0]
  /\ exampleCall = NoExampleCall

\* what reading element i (from 0) of an array does: a value, or the failure
\* of the out-of-bounds check
ArrayAt(array, i) ==
  IF i < Len(array) THEN [ok |-> TRUE, value |-> array[i + 1]]
  ELSE [ok |-> FALSE, value |-> 0]

\* the outcome of the constructor: the checks of BasePool, then the reads of
\* tokens[0], tokens[1] and tokens[2]
constructorOutcome(tokens) ==
  IF ~(Len(tokens) >= _MIN_TOKENS) THEN "BAL#200"
  ELSE IF ~(Len(tokens) <= _MAX_TOKENS) THEN "BAL#201"
  ELSE IF \E i \in 0..2 : ~ArrayAt(tokens, i).ok THEN "out of bounds"
  ELSE "ok"

\* ExamplePool constructor
deployExamplePool(tokens) ==
  /\ ~examplePool.deployed
  /\ exampleCall' = ExampleCall("constructor", tokens,
                                constructorOutcome(tokens), <<>>)
  /\ examplePool' =
       IF constructorOutcome(tokens) # "ok" THEN examplePool
       ELSE [deployed |-> TRUE, _totalTokens |-> Len(tokens),
             _token0 |-> ArrayAt(tokens, 0).value,
             _token1 |-> ArrayAt(tokens, 1).value,
             _token2 |-> ArrayAt(tokens, 2).value,
             _scalingFactor0 |-> computeScalingFactor(ArrayAt(tokens, 0).value),
             _scalingFactor1 |-> computeScalingFactor(ArrayAt(tokens, 1).value),
             _scalingFactor2 |-> computeScalingFactor(ArrayAt(tokens, 2).value)]

_getTotalTokens == examplePool._totalTokens

\* ExamplePool._scalingFactor(token)
_scalingFactor(token) ==
  /\ examplePool.deployed
  /\ exampleCall' =
       IF token = examplePool._token0
       THEN ExampleCall("_scalingFactor", <<token>>, "ok",
                        <<examplePool._scalingFactor0>>)
       ELSE IF token = examplePool._token1
       THEN ExampleCall("_scalingFactor", <<token>>, "ok",
                        <<examplePool._scalingFactor1>>)
       ELSE IF token = examplePool._token2
       THEN ExampleCall("_scalingFactor", <<token>>, "ok",
                        <<examplePool._scalingFactor2>>)
       ELSE ExampleCall("_scalingFactor", <<token>>, "BAL#309", <<>>)
  /\ UNCHANGED examplePool

\* ExamplePool._scalingFactors: an array of _getTotalTokens() elements, of
\* which elements 0, 1 and 2 are written
_scalingFactors ==
  /\ examplePool.deployed
  /\ exampleCall' =
       IF ~(2 < _getTotalTokens)
       THEN ExampleCall("_scalingFactors", <<>>, "out of bounds", <<>>)
       ELSE ExampleCall("_scalingFactors", <<>>, "ok",
                        <<examplePool._scalingFactor0,
                          examplePool._scalingFactor1,
                          examplePool._scalingFactor2>>
                        \o [i \in 1..(_getTotalTokens - 3) |-> 0])
  /\ UNCHANGED examplePool

\* both example pools right after the deployment of the CharityPool, with no
\* ExamplePool deployed
ExamplesIdle ==
  /\ CharityPoolDeployed
  /\ ExamplePoolNotDeployed

\* the launcher right after its deployment, with no exit fee, no distributor
\* and an unused registry and permissioned pool
ContractsIdle ==
  /\ NoPools
  /\ exitFeePercentage = FixedPoint(0, 1)
  /\ DistributorIdle
  /\ PermissionedDeployed(Deployer)
  /\ ExamplesIdle

\* ------------------------------------------------------------------------
\* Pricing specification: one call of one function on one pool snapshot
\* ------------------------------------------------------------------------
MaxBalance == 16
MaxWeightDen == 4
MaxFeeDen == 2
MaxPrice == 4
MaxAmount == 6
MaxDesired == 2
MaxIterations == 1
MaxTradeSize == 1

Fraction(n, d) == [k |-> "fin", n |-> n \div GCD(n, d), d |-> d \div GCD(n, d)]

\* fixed-point numbers an 18-decimal BigNumber can hold
Balances == {DecInt(b) : b \in 1..MaxBalance}

\* the fractions in (0,1) with a denominator up to maxDen that 18 decimals hold
ProperFractions(maxDen) ==
  {Fraction(x[1], x[2]) :
     x \in {y \in (1..maxDen) \X (2..maxDen) : y[1] < y[2] /\ Terminates(y[2])}}

Weights == ProperFractions(MaxWeightDen)

Fees == {ZERO} \cup ProperFractions(MaxFeeDen)

Tokens == <<"tokenA", "tokenB">>

\* two-token pools with normalized weights
PoolStates ==
  { [ id |-> "pool", tokens |-> Tokens, balances |-> <<b0, b1>>,
      weights |-> <<w0, sub(ONE, w0)>>, swapFee |-> f ] :
    b0 \in Balances, b1 \in Balances, w0 \in Weights, f \in Fees }

Prices == 1..MaxPrice

Amounts == {DecInt(a) : a \in 0..MaxAmount}

\* the trade sizes the refinement formulas are read at
TradeSizes == {DecInt(a) : a \in 0..MaxTradeSize}

DesiredPrices ==
  {Fraction(n, d) : n \in 1..MaxDesired, d \in {c \in 1..MaxDesired : Terminates(c)}}

Directions == {<<0, 1>>, <<1, 0>>}

NoSwap ==
  [ poolId |-> "none", assetInIndex |-> 0, assetOutIndex |-> 0,
    amount |-> ZERO, userData |-> "0x" ]

NoArgs ==
  [ prices |-> <<0, 0>>, assetIn |-> 0, assetOut |-> 0, amount |-> ZERO,
    desiredSpotPrice |-> ZERO, numIterations |-> 0,
    currentSpotPrice |-> ZERO ]

\* steps: the refinement steps the call performed
NoRet == [value |-> ZERO, swap |-> NoSwap, steps |-> 0]

Exact(x) == x.k # "inexact"

ExactPair(p) ==
  /\ Exact(p.balanceIn) /\ Exact(p.balanceOut)
  /\ Exact(p.weightIn) /\ Exact(p.weightOut) /\ Exact(p.swapFee)

PricingInit ==
  /\ poolState \in PoolStates
  /\ fn = "none"
  /\ args = NoArgs
  /\ ret = NoRet
  /\ LauncherConstructed(Deployer)
  /\ ContractsIdle

CallIdentifyArbitrageOpp ==
  /\ fn = "none"
  /\ \E p0 \in Prices, p1 \in Prices :
       LET marketPrices == [t \in {Tokens[1], Tokens[2]} |->
                              IF t = Tokens[1] THEN p0 ELSE p1]
           swap == identifyArbitrageOpp(marketPrices, poolState, Tokens)
       IN /\ Exact(getSpotPrice(poolPairData(poolState, 0, 1)))
          /\ Exact(marketRatio(marketPrices, poolPairData(poolState, 0, 1)))
          /\ Exact(swap.amount)
          /\ fn' = "identifyArbitrageOpp"
          /\ args' = [NoArgs EXCEPT !.prices = <<p0, p1>>]
          /\ ret' = [NoRet EXCEPT !.swap = swap]
  /\ UNCHANGED poolState
  /\ UNCHANGED <<launcherVars, contractVars>>

CallExactTokenInForTokenOut ==
  /\ fn = "none"
  /\ \E dir \in Directions, amount \in Amounts :
       LET pair == poolPairData(poolState, dir[1], dir[2])
           out == _exactTokenInForTokenOut(amount, pair)
       IN /\ ExactPair(pair)
          /\ Exact(out)
          /\ fn' = "_exactTokenInForTokenOut"
          /\ args' = [NoArgs EXCEPT !.assetIn = dir[1], !.assetOut = dir[2],
                                    !.amount = amount]
          /\ ret' = [NoRet EXCEPT !.value = out]
  /\ UNCHANGED poolState
  /\ UNCHANGED <<launcherVars, contractVars>>

CallTokenInForExactTokenOut ==
  /\ fn = "none"
  /\ \E dir \in Directions, amount \in Amounts :
       LET pair == poolPairData(poolState, dir[1], dir[2])
           out == _tokenInForExactTokenOut(amount, pair)
       IN /\ ExactPair(pair)
          /\ Exact(out)
          /\ fn' = "_tokenInForExactTokenOut"
          /\ args' = [NoArgs EXCEPT !.assetIn = dir[1], !.assetOut = dir[2],
                                    !.amount = amount]
          /\ ret' = [NoRet EXCEPT !.value = out]
  /\ UNCHANGED poolState
  /\ UNCHANGED <<launcherVars, contractVars>>

CallGetAmountInNoFees ==
  /\ fn = "none"
  /\ \E dir \in Directions, desired \in DesiredPrices :
       LET pair == poolPairData(poolState, dir[1], dir[2])
           out == getAmountInForSpotPriceAfterSwapNoFees(pair, desired)
       IN /\ ExactPair(pair)
          /\ Exact(out)
          /\ fn' = "getAmountInForSpotPriceAfterSwapNoFees"
          /\ args' = [NoArgs EXCEPT !.assetIn = dir[1], !.assetOut = dir[2],
                                    !.desiredSpotPrice = desired]
          /\ ret' = [NoRet EXCEPT !.value = out]
  /\ UNCHANGED poolState
  /\ UNCHANGED <<launcherVars, contractVars>>

CallGetAmountInForSpotPrice ==
  /\ fn = "none"
  /\ \E dir \in Directions, n \in 0..MaxIterations :
       LET pair == poolPairData(poolState, dir[1], dir[2])
       IN \E desired \in DesiredPrices \cup {getSpotPrice(pair)} :
            LET out == getAmountInForSpotPrice(pair, desired, n)
            IN /\ ExactPair(pair)
               /\ Exact(desired)
               /\ Exact(out)
               /\ fn' = "getAmountInForSpotPrice"
               /\ args' = [NoArgs EXCEPT !.assetIn = dir[1], !.assetOut = dir[2],
                                         !.desiredSpotPrice = desired,
                                         !.numIterations = n]
               /\ ret' = [NoRet EXCEPT !.value = out,
                                       !.steps = refinementSteps(pair, desired, n)]
  /\ UNCHANGED poolState
  /\ UNCHANGED <<launcherVars, contractVars>>

PricingNext ==
  \/ CallIdentifyArbitrageOpp
  \/ CallExactTokenInForTokenOut
  \/ CallTokenInForExactTokenOut
  \/ CallGetAmountInNoFees
  \/ CallGetAmountInForSpotPrice

SpecPricing == PricingInit /\ [][PricingNext]_vars

\* ------------------------------------------------------------------------
\* Launcher specification: transactions on one deployed launcher
\* ------------------------------------------------------------------------
NoPool ==
  [ id |-> "none", tokens |-> <<>>, balances |-> <<>>, weights |-> <<>>,
    swapFee |-> ZERO ]

LauncherInit ==
  /\ poolState = NoPool
  /\ fn = "none"
  /\ args = NoArgs
  /\ ret = NoRet
  /\ LauncherConstructed(Deployer)
  /\ ContractsIdle

TransferOwnership ==
  /\ \E sender \in Accounts, newManager \in Accounts \cup {ZERO_ADDRESS} :
       transferOwnership(sender, newManager)
  /\ UNCHANGED <<pricingVars, contractVars>>

ClaimOwnership ==
  /\ \E sender \in Accounts : claimOwnership(sender)
  /\ UNCHANGED <<pricingVars, contractVars>>

ChangeFeeRecipient ==
  /\ \E sender \in Accounts, newRecipient \in ScheduledRecipients :
       changeFeeRecipient(sender, newRecipient)
  /\ UNCHANGED <<pricingVars, contractVars>>

Schedule ==
  /\ \E k \in 1.._timelockController, newRecipient \in ScheduledRecipients,
        delay \in Delays :
       \E sender \in Callers(k) : schedule(sender, k, newRecipient, delay)
  /\ UNCHANGED <<pricingVars, contractVars>>

Execute ==
  /\ \E k \in 1.._timelockController, newRecipient \in ScheduledRecipients :
       \E sender \in Callers(k) : execute(sender, k, newRecipient)
  /\ UNCHANGED <<pricingVars, contractVars>>

Cancel ==
  /\ \E k \in 1.._timelockController, newRecipient \in ScheduledRecipients :
       \E sender \in Callers(k) : cancel(sender, k, newRecipient)
  /\ UNCHANGED <<pricingVars, contractVars>>

AdvanceTime ==
  /\ advanceTime
  /\ UNCHANGED <<pricingVars, contractVars>>

LauncherNext ==
  \/ TransferOwnership
  \/ ClaimOwnership
  \/ ChangeFeeRecipient
  \/ Schedule
  \/ Execute
  \/ Cancel
  \/ AdvanceTime

SpecLauncher == LauncherInit /\ [][LauncherNext]_vars

\* ------------------------------------------------------------------------
\* Auction specification: the manager and others call createAuction
\* ------------------------------------------------------------------------
MaxSeed == 2

\* an auction of the tokens with 18 and 17 decimals, and a three-token list
TokenLists == {<<0, 1>>, <<0, 1, 0>>}

\* end weights in percent
EndWeightLists == {<<90, 10>>, <<70, 20, 10>>}

StartTimes == {0, 1}

EndTimes == {1, 1 + MINIMUM_LBP_DURATION}

\* the fund token is seeded with seed units, the project token with more
Amounts2(fundTokenIndex, seed) ==
  [i \in 1..2 |-> IF i = fundTokenIndex + 1 THEN seed ELSE MaxSeed + 1]

PoolConfig(tokens, amounts, endWeights, fundTokenIndex, startTime, endTime, owner) ==
  [ tokens |-> tokens, amounts |-> amounts, endWeights |-> endWeights,
    fundTokenIndex |-> fundTokenIndex, startTime |-> startTime,
    endTime |-> endTime, owner |-> owner ]

\* every combination of token list, end weights and times, for the deployer
\* as owner; the combinations createAuction accepts also for the other owners
\* and for either fund token
PoolConfigs ==
  { c \in { PoolConfig(t, Amounts2(f, MaxSeed), w, f, st, et, o) :
              t \in TokenLists, w \in EndWeightLists, f \in {0, 1},
              st \in StartTimes, et \in EndTimes, o \in Accounts } :
      \/ createAuctionOutcome(_manager, c) = "ok"
      \/ c.owner = Deployer /\ c.fundTokenIndex = 0 }

AuctionsInit ==
  /\ poolState = NoPool
  /\ fn = "none"
  /\ args = NoArgs
  /\ ret = NoRet
  /\ LauncherConstructed(Deployer)
  /\ ContractsIdle

CreateAuction ==
  /\ \E sender \in Accounts, poolConfig \in PoolConfigs :
       createAuction(sender, poolConfig)
  /\ UNCHANGED <<pricingVars, launcherVars, otherContracts>>

AuctionsNext == CreateAuction

SpecAuctions == AuctionsInit /\ [][AuctionsNext]_vars

\* ------------------------------------------------------------------------
\* Pool owner specification: one auction was created; its owner, its
\* candidates and the other accounts act on it
\* ------------------------------------------------------------------------
\* the auctions the manager created for the account after the deployer
OwnerConfigs ==
  { PoolConfig(<<0, 1>>, Amounts2(f, seed), <<90, 10>>, f, 0,
               1 + MINIMUM_LBP_DURATION, Deployer + 1) :
      f \in {0, 1}, seed \in 1..MaxSeed }

\* the launcher after createAuction(poolConfig) by the deployer
AuctionCreated(poolConfig) ==
  /\ _pools = <<PoolAddress(1)>>
  /\ _poolData = [p \in PoolAddresses |->
                    IF p = PoolAddress(1) THEN recorded(poolConfig)
                    ELSE NoPoolData]
  /\ lbps = [p \in PoolAddresses |->
               IF p = PoolAddress(1) THEN launchedLbp(poolConfig) ELSE NoLbp]
  /\ held = [t \in Erc20s |-> 0]
  /\ poolCall = PoolCall("createAuction", Deployer, PoolAddress(1),
                         poolConfig, "ok", seedTransfers(poolConfig))

PoolOwnerInit ==
  /\ poolState = NoPool
  /\ fn = "none"
  /\ args = NoArgs
  /\ ret = NoRet
  /\ LauncherConstructed(Deployer)
  /\ DistributorIdle
  /\ PermissionedDeployed(Deployer)
  /\ ExamplesIdle
  /\ exitFeePercentage = FixedPoint(1, 2)
  /\ \E poolConfig \in OwnerConfigs :
       /\ poolConfig.amounts[poolConfig.fundTokenIndex + 1] = MaxSeed
       /\ AuctionCreated(poolConfig)

SetSwapEnabled ==
  /\ \E sender \in Accounts, pool \in PoolAddresses, swapEnabled \in BOOLEAN :
       setSwapEnabled(sender, pool, swapEnabled)
  /\ UNCHANGED <<pricingVars, launcherVars, otherContracts>>

TransferPoolOwnership ==
  /\ \E sender \in Accounts, pool \in PoolAddresses,
        newOwner \in Accounts \cup {ZERO_ADDRESS} :
       transferPoolOwnership(sender, pool, newOwner)
  /\ UNCHANGED <<pricingVars, launcherVars, otherContracts>>

ClaimPoolOwnership ==
  /\ \E sender \in Accounts, pool \in PoolAddresses :
       claimPoolOwnership(sender, pool)
  /\ UNCHANGED <<pricingVars, launcherVars, otherContracts>>

ExitPool ==
  /\ \E sender \in Accounts, pool \in PoolAddresses,
        maxBPTAmountIn \in 0..(InitialBpt + 1) :
       exitPool(sender, pool, maxBPTAmountIn)
  /\ UNCHANGED <<pricingVars, launcherVars, otherContracts>>

PoolOwnerNext ==
  \/ SetSwapEnabled
  \/ TransferPoolOwnership
  \/ ClaimPoolOwnership
  \/ ExitPool

SpecPoolOwner == PoolOwnerInit /\ [][PoolOwnerNext]_vars

\* ------------------------------------------------------------------------
\* Exit specification: one auction was created; traders swap, accounts send
\* tokens to the launcher, the owner and others exit
\* ------------------------------------------------------------------------
ExitInit ==
  /\ poolState = NoPool
  /\ fn = "none"
  /\ args = NoArgs
  /\ ret = NoRet
  /\ LauncherConstructed(Deployer)
  /\ DistributorIdle
  /\ PermissionedDeployed(Deployer)
  /\ ExamplesIdle
  /\ exitFeePercentage \in FeePercentages
  /\ \E poolConfig \in OwnerConfigs : AuctionCreated(poolConfig)

\* the pool owner opens the auction to traders
EnableSwaps ==
  /\ \E pool \in PoolAddresses :
       /\ isPool(pool)
       /\ setSwapEnabled(_poolData[pool].owner, pool, TRUE)
  /\ UNCHANGED <<pricingVars, launcherVars, otherContracts>>

Swap ==
  /\ \E pool \in PoolAddresses, tokenInIndex \in {0, 1} :
       lbpSwap(pool, tokenInIndex)
  /\ UNCHANGED <<pricingVars, launcherVars, otherContracts>>

Donate ==
  /\ \E token \in Erc20s : donate(token)
  /\ UNCHANGED <<pricingVars, launcherVars, otherContracts>>

ExitNext ==
  \/ EnableSwaps
  \/ Swap
  \/ Donate
  \/ ExitPool

SpecExit == ExitInit /\ [][ExitNext]_vars

\* ------------------------------------------------------------------------
\* Split exit specification: an auction whose fund token balance has grown
\* by swaps; the owner exits at once or in parts
\* ------------------------------------------------------------------------
MaxGrownSeed == 6
MaxGrowth == 6

\* the launcher after createAuction(poolConfig), swaps enabled and traders
\* having swapped growth units of the fund token for the project token
GrownPool(poolConfig, growth) ==
  LET f == poolConfig.fundTokenIndex + 1
  IN /\ _pools = <<PoolAddress(1)>>
     /\ _poolData = [p \in PoolAddresses |->
                       IF p = PoolAddress(1) THEN recorded(poolConfig)
                       ELSE NoPoolData]
     /\ lbps = [p \in PoolAddresses |->
                  IF p = PoolAddress(1)
                  THEN [launchedLbp(poolConfig) EXCEPT
                          !.swapEnabled = TRUE,
                          !.balances = [i \in 1..2 |->
                                          IF i = f THEN @[i] + growth
                                          ELSE @[i] - growth]]
                  ELSE NoLbp]
     /\ held = [t \in Erc20s |-> 0]
     /\ poolCall = PoolCall("swap", ZERO_ADDRESS, PoolAddress(1),
                            poolConfig.fundTokenIndex, "ok", <<>>)

SplitExitInit ==
  /\ poolState = NoPool
  /\ fn = "none"
  /\ args = NoArgs
  /\ ret = NoRet
  /\ LauncherConstructed(Deployer)
  /\ DistributorIdle
  /\ PermissionedDeployed(Deployer)
  /\ ExamplesIdle
  /\ exitFeePercentage \in FeePercentages
  /\ \E f \in {0, 1}, seed \in 1..MaxGrownSeed, growth \in 1..MaxGrowth :
       GrownPool(PoolConfig(<<0, 1>>,
                            [i \in 1..2 |-> IF i = f + 1 THEN seed ELSE growth + 1],
                            <<90, 10>>, f, 0, 1 + MINIMUM_LBP_DURATION,
                            Deployer + 1),
                 growth)

SplitExitNext == ExitPool

SpecSplitExit == SplitExitInit /\ [][SplitExitNext]_vars

\* ------------------------------------------------------------------------
\* Distributor specification: one distributor is deployed, receives revenue
\* and distributes it
\* ------------------------------------------------------------------------
DistributorInit ==
  /\ poolState = NoPool
  /\ fn = "none"
  /\ args = NoArgs
  /\ ret = NoRet
  /\ LauncherConstructed(Deployer)
  /\ ContractsIdle

DeployDistributor ==
  /\ \E balancerAddress \in Accounts \cup {ZERO_ADDRESS},
        partnerAddress \in Accounts,
        partnerSharePct \in SharePercentages, name \in PartnerNames :
       deployDistributor(balancerAddress, partnerAddress, partnerSharePct,
                         name)
  /\ UNCHANGED <<pricingVars, launcherVars, poolVars, permissionedVars, exampleVars>>

ReceiveRevenue ==
  /\ \E token \in Erc20s : receiveRevenue(token)
  /\ UNCHANGED <<pricingVars, launcherVars, poolVars, permissionedVars, exampleVars>>

DistributeRevenueShare ==
  /\ \E token \in Erc20s : distributeRevenueShare(token)
  /\ UNCHANGED <<pricingVars, launcherVars, poolVars, permissionedVars, exampleVars>>

DistributorNext ==
  \/ DeployDistributor
  \/ ReceiveRevenue
  \/ DistributeRevenueShare

SpecDistributor == DistributorInit /\ [][DistributorNext]_vars

\* ------------------------------------------------------------------------
\* Permissioned pool specification: the owners of the allowlists change them
\* while accounts join, exit, transfer BPT and swap (calls of the registry by
\* other accounts are in the registry specification)
\* ------------------------------------------------------------------------
PermissionedInit ==
  /\ poolState = NoPool
  /\ fn = "none"
  /\ args = NoArgs
  /\ ret = NoRet
  /\ LauncherConstructed(Deployer)
  /\ ContractsIdle

\* the owner of an allowlist administers it: the pool's allowlist with any
\* member, the other allowlist with one account
OwnerAdds ==
  /\ \E allowlistId \in AllowlistIds, member \in Accounts :
       /\ _allowlistOwners[allowlistId] # ZERO_ADDRESS
       /\ allowlistId # PoolAllowlistId => member = Deployer + 1
       /\ addAllowedAddress(_allowlistOwners[allowlistId], allowlistId, member)
  /\ UNCHANGED <<pricingVars, launcherVars, poolVars, distributorVars, exampleVars>>

OwnerRemoves ==
  /\ \E allowlistId \in AllowlistIds, member \in Accounts :
       /\ _allowlistOwners[allowlistId] # ZERO_ADDRESS
       /\ allowlistId # PoolAllowlistId => member = Deployer + 1
       /\ removeAllowedAddress(_allowlistOwners[allowlistId], allowlistId,
                               member)
  /\ UNCHANGED <<pricingVars, launcherVars, poolVars, distributorVars, exampleVars>>

\* somebody else creates the other allowlist
OtherAllowlistCreated ==
  /\ createAllowlist(Deployer + 1, PoolAllowlistId + 1)
  /\ UNCHANGED <<pricingVars, launcherVars, poolVars, distributorVars, exampleVars>>

JoinPool ==
  /\ \E sender \in Accounts, recipient \in Accounts : joinPool(sender, recipient)
  /\ UNCHANGED <<pricingVars, launcherVars, poolVars, distributorVars, exampleVars>>

ExitPermissionedPool ==
  /\ \E sender \in Accounts : exitPermissionedPool(sender)
  /\ UNCHANGED <<pricingVars, launcherVars, poolVars, distributorVars, exampleVars>>

TransferBpt ==
  /\ \E sender \in Accounts, recipient \in Accounts :
       transferBpt(sender, recipient)
  /\ UNCHANGED <<pricingVars, launcherVars, poolVars, distributorVars, exampleVars>>

SwapGivenIn ==
  /\ \E from \in Accounts, to \in Accounts : _onSwapGivenIn(from, to)
  /\ UNCHANGED <<pricingVars, launcherVars, poolVars, distributorVars, exampleVars>>

SwapGivenOut ==
  /\ \E from \in Accounts, to \in Accounts : _onSwapGivenOut(from, to)
  /\ UNCHANGED <<pricingVars, launcherVars, poolVars, distributorVars, exampleVars>>

SetPaused ==
  /\ \E p \in BOOLEAN : setPaused(p)
  /\ UNCHANGED <<pricingVars, launcherVars, poolVars, distributorVars, exampleVars>>

PermissionedNext ==
  \/ OtherAllowlistCreated
  \/ OwnerAdds
  \/ OwnerRemoves
  \/ JoinPool
  \/ ExitPermissionedPool
  \/ TransferBpt
  \/ SwapGivenIn
  \/ SwapGivenOut
  \/ SetPaused

SpecPermissioned == PermissionedInit /\ [][PermissionedNext]_vars

\* ------------------------------------------------------------------------
\* Registry specification: any account creates allowlists and tries to add
\* and remove members
\* ------------------------------------------------------------------------
\* the registry right after its deployment: no allowlist has an owner
RegistryDeployed ==
  /\ _allowlistOwners = [id \in AllowlistIds |-> ZERO_ADDRESS]
  /\ _allowlists = [id \in AllowlistIds |-> {}]
  /\ bptBalances = [a \in Holders |-> 0]
  /\ paused = FALSE
  /\ permissionedCall = NoPermissionedCall

RegistryInit ==
  /\ poolState = NoPool
  /\ fn = "none"
  /\ args = NoArgs
  /\ ret = NoRet
  /\ LauncherConstructed(Deployer)
  /\ NoPools
  /\ exitFeePercentage = FixedPoint(0, 1)
  /\ DistributorIdle
  /\ RegistryDeployed
  /\ ExamplesIdle

CreateAllowlist ==
  /\ \E sender \in Accounts, allowlistId \in AllowlistIds :
       createAllowlist(sender, allowlistId)
  /\ UNCHANGED <<pricingVars, launcherVars, poolVars, distributorVars, exampleVars>>

AddAllowedAddress ==
  /\ \E sender \in Accounts, allowlistId \in AllowlistIds, member \in Accounts :
       addAllowedAddress(sender, allowlistId, member)
  /\ UNCHANGED <<pricingVars, launcherVars, poolVars, distributorVars, exampleVars>>

RemoveAllowedAddress ==
  /\ \E sender \in Accounts, allowlistId \in AllowlistIds, member \in Accounts :
       removeAllowedAddress(sender, allowlistId, member)
  /\ UNCHANGED <<pricingVars, launcherVars, poolVars, distributorVars, exampleVars>>

RegistryNext ==
  \/ CreateAllowlist
  \/ AddAllowedAddress
  \/ RemoveAllowedAddress

SpecRegistry == RegistryInit /\ [][RegistryNext]_vars

\* ------------------------------------------------------------------------
\* Solver specification: one call of a formula the refinement loop uses, on
\* the pool state the pricing calls are made on
\* ------------------------------------------------------------------------
CallGetExtraAmountIn ==
  /\ fn = "none"
  /\ \E dir \in Directions, amountIn \in TradeSizes, desired \in DesiredPrices :
       LET pair == poolPairData(poolState, dir[1], dir[2])
           currentSpotPrice == getSpotPrice(pair)
       IN /\ ExactPair(pair)
          /\ Exact(currentSpotPrice)
          /\ fn' = "getExtraAmountIn"
          /\ args' = [NoArgs EXCEPT !.assetIn = dir[1], !.assetOut = dir[2],
                                    !.amount = amountIn,
                                    !.desiredSpotPrice = desired,
                                    !.currentSpotPrice = currentSpotPrice]
          /\ ret' = [NoRet EXCEPT !.value =
                       getExtraAmountIn(pair, currentSpotPrice, amountIn, desired)]
  /\ UNCHANGED poolState
  /\ UNCHANGED <<launcherVars, contractVars>>

CallSpotPriceAfterSwapExactTokenInForTokenOut ==
  /\ fn = "none"
  /\ \E dir \in Directions, amount \in TradeSizes :
       LET pair == poolPairData(poolState, dir[1], dir[2])
           out == _spotPriceAfterSwapExactTokenInForTokenOut(amount, pair)
       IN /\ ExactPair(pair)
          /\ Exact(out)
          /\ fn' = "_spotPriceAfterSwapExactTokenInForTokenOut"
          /\ args' = [NoArgs EXCEPT !.assetIn = dir[1], !.assetOut = dir[2],
                                    !.amount = amount]
          /\ ret' = [NoRet EXCEPT !.value = out]
  /\ UNCHANGED poolState
  /\ UNCHANGED <<launcherVars, contractVars>>

CallSpotPriceAfterSwapTokenInForExactTokenOut ==
  /\ fn = "none"
  /\ \E dir \in Directions, amount \in TradeSizes :
       LET pair == poolPairData(poolState, dir[1], dir[2])
           out == _spotPriceAfterSwapTokenInForExactTokenOut(amount, pair)
       IN /\ ExactPair(pair)
          /\ Exact(out)
          /\ fn' = "_spotPriceAfterSwapTokenInForExactTokenOut"
          /\ args' = [NoArgs EXCEPT !.assetIn = dir[1], !.assetOut = dir[2],
                                    !.amount = amount]
          /\ ret' = [NoRet EXCEPT !.value = out]
  /\ UNCHANGED poolState
  /\ UNCHANGED <<launcherVars, contractVars>>

SolverNext ==
  \/ CallGetExtraAmountIn
  \/ CallSpotPriceAfterSwapExactTokenInForTokenOut
  \/ CallSpotPriceAfterSwapTokenInForExactTokenOut

SpecSolver == PricingInit /\ [][SolverNext]_vars

\* ------------------------------------------------------------------------
\* Charity pool specification: the pool is initialized, traders swap and
\* anybody pays out to the charity
\* ------------------------------------------------------------------------
CharityInit ==
  /\ poolState = NoPool
  /\ fn = "none"
  /\ args = NoArgs
  /\ ret = NoRet
  /\ LauncherConstructed(Deployer)
  /\ ContractsIdle

CharityFrame ==
  UNCHANGED <<pricingVars, launcherVars, poolVars, distributorVars, permissionedVars, templateVars>>

InitializeCharityPool ==
  /\ \E sender \in Accounts, a0 \in 1..MaxCharityBalance, a1 \in 1..MaxCharityBalance :
       initializeCharityPool(sender, <<a0, a1>>)
  /\ CharityFrame

CharitySwap ==
  /\ \E sender \in Accounts, tokenIn \in 1..2, amountIn \in 1..MaxCharityBalance, amountOut \in 0..MaxCharityBalance :
       charitySwap(sender, tokenIn, amountIn, amountOut)
  /\ CharityFrame

PayoutToCharity ==
  /\ \E sender \in Accounts \cup {CharityAddress} : payoutToCharity(sender)
  /\ CharityFrame

CharityNext ==
  \/ InitializeCharityPool
  \/ CharitySwap
  \/ PayoutToCharity

SpecCharity == CharityInit /\ [][CharityNext]_vars

\* ------------------------------------------------------------------------
\* Example pool specification: a deployment with a list of tokens, then reads
\* of the scaling factors
\* ------------------------------------------------------------------------
TemplateInit ==
  /\ poolState = NoPool
  /\ fn = "none"
  /\ args = NoArgs
  /\ ret = NoRet
  /\ LauncherConstructed(Deployer)
  /\ ContractsIdle

TemplateFrame ==
  UNCHANGED <<pricingVars, launcherVars, poolVars, distributorVars, permissionedVars, charityVars>>

DeployExamplePool ==
  /\ \E tokens \in ExampleTokenLists : deployExamplePool(tokens)
  /\ TemplateFrame

ScalingFactor ==
  /\ \E token \in ExampleTokens : _scalingFactor(token)
  /\ TemplateFrame

ScalingFactors ==
  /\ _scalingFactors
  /\ TemplateFrame

TemplateNext ==
  \/ DeployExamplePool
  \/ ScalingFactor
  \/ ScalingFactors

SpecTemplate == TemplateInit /\ [][TemplateNext]_vars

\* the pair data the recorded call worked on
calledPair == poolPairData(poolState, args.assetIn, args.assetOut)

\* ------------------------------------------------------------------------
\* Properties of the pricing functions
\* ------------------------------------------------------------------------
IsZero(x) == IsFin(x) /\ x.n = 0

NonNegative(x) == IsFin(x) /\ x.n >= 0

\* the reference ratio price[token0] / price[token1] as a number
referenceRatio == Fraction(args.prices[1], args.prices[2])

\* the pair after amountIn was swapped for amountOut
pairAfterSwap(pair, amountIn, amountOut) ==
  [pair EXCEPT !.balanceIn = add(pair.balanceIn, amountIn),
               !.balanceOut = sub(pair.balanceOut, amountOut)]

\* C1: identifyArbitrageOpp switches to (asset 1 in, asset 0 out) exactly when
\* the reference ratio is numerically greater than the spot price of the
\* default pair, and keeps (asset 0 in, asset 1 out) otherwise.
C1_DirectionFollowsNumericOrder ==
  fn = "identifyArbitrageOpp" =>
    IF Lt(getSpotPrice(poolPairData(poolState, 0, 1)), referenceRatio)
    THEN ret.swap.assetInIndex = 1 /\ ret.swap.assetOutIndex = 0
    ELSE ret.swap.assetInIndex = 0 /\ ret.swap.assetOutIndex = 1

\* C2: every trade instruction of identifyArbitrageOpp has two different
\* asset indices and a non-negative amount.
C2_TradeInstructionWellFormed ==
  fn = "identifyArbitrageOpp" =>
    /\ ret.swap.assetInIndex # ret.swap.assetOutIndex
    /\ NonNegative(ret.swap.amount)

\* C3: in a zero-fee pool, swapping the closed-form estimate for a desired
\* price reachable by selling tokenIn leaves the pool at the desired price,
\* whatever the weights.
C3_NoFeeEstimateReachesTarget ==
  LET pair == calledPair
      amountOut == _exactTokenInForTokenOut(ret.value, pair)
      after == getSpotPrice(pairAfterSwap(pair, ret.value, amountOut))
  IN ( /\ fn = "getAmountInForSpotPriceAfterSwapNoFees"
       /\ IsZero(pair.swapFee)
       /\ Le(args.desiredSpotPrice, getSpotPrice(pair))
       /\ IsFin(after) )
     => after = args.desiredSpotPrice

\* C4: when the desired price is the current spot price, getAmountInForSpotPrice
\* returns zero for every iteration count.
C4_NoArbitrageIsZero ==
  ( /\ fn = "getAmountInForSpotPrice"
    /\ args.desiredSpotPrice = getSpotPrice(calledPair) )
  => IsZero(ret.value)

C4_Witness ==
  /\ fn = "getAmountInForSpotPrice"
  /\ args.desiredSpotPrice = getSpotPrice(calledPair)
  /\ args.numIterations > 0
  /\ calledPair.weightIn # calledPair.weightOut
  /\ ~IsZero(calledPair.swapFee)
  /\ IsZero(ret.value)

C6_ExactOutRoundTrip ==
  LET pair == calledPair
      back == _exactTokenInForTokenOut(ret.value, pair)
  IN ( /\ fn = "_tokenInForExactTokenOut"
       /\ Lt(args.amount, pair.balanceOut) )
     => /\ NonNegative(ret.value)
        /\ IsFin(back) => back = args.amount

\* C7: with equal weights and no fee, _exactTokenInForTokenOut is the
\* constant-product formula balanceOut * amountIn / (balanceIn + amountIn).
C7_BalancedPoolReduction ==
  LET pair == calledPair
  IN ( /\ fn = "_exactTokenInForTokenOut"
       /\ pair.weightIn = Fraction(1, 2) /\ pair.weightOut = Fraction(1, 2)
       /\ IsZero(pair.swapFee) )
     => ret.value = div(mul(pair.balanceOut, args.amount),
                        add(pair.balanceIn, args.amount))

C7_Witness ==
  /\ fn = "_exactTokenInForTokenOut"
  /\ calledPair.weightIn = Fraction(1, 2)
  /\ calledPair.weightOut = Fraction(1, 2)
  /\ IsZero(calledPair.swapFee)
  /\ args.amount.n > 0
  /\ calledPair.balanceIn # calledPair.balanceOut
  /\ IsFin(ret.value) /\ ret.value.d > 1

\* C8: _tokenInForExactTokenOut fails with an error, returning no amount,
\* whenever amountOut >= balanceOut.
C8_OversizedExactOutFails ==
  ( /\ fn = "_tokenInForExactTokenOut"
    /\ Le(calledPair.balanceOut, args.amount) )
  => ret.value.k = "throw"

\* ------------------------------------------------------------------------
\* Properties of the launcher
\* ------------------------------------------------------------------------
CalledOk(op) == lastCall'.op = op /\ lastCall'.outcome = "ok"

OwnershipUnchanged ==
  UNCHANGED <<_manager, _managerCandidate, _timelockController, timelocks>>

Operation(k, r) == timelocks[k].ops[r]

\* C9: the manager handover is two-step. getManager() changes only inside a
\* claimOwnership call made by the address most recently nominated through
\* transferOwnership by the then-current manager. transferOwnership(c) by the
\* manager leaves the manager in place and makes c the candidate; the
\* candidate's claimOwnership makes it the manager and resets the candidate to
\* zero, so that a second claim reverts. transferOwnership by a non-manager
\* reverts with 'Caller is not manager' and claimOwnership by a non-candidate
\* with 'Sender not allowed', both leaving manager, candidate and timelock
\* unchanged.
C9_TwoStepHandover ==
  [][ /\ _manager' # _manager =>
           /\ CalledOk("claimOwnership")
           /\ lastCall'.sender = _managerCandidate
           /\ nomination.who = lastCall'.sender
           /\ nomination.by = _manager
      /\ CalledOk("transferOwnership") =>
           /\ lastCall'.sender = _manager
           /\ _manager' = _manager
           /\ _managerCandidate' = lastCall'.arg
      /\ CalledOk("claimOwnership") =>
           /\ lastCall'.sender = _managerCandidate
           /\ _manager' = lastCall'.sender
           /\ _managerCandidate' = ZERO_ADDRESS
      /\ (lastCall'.op = "transferOwnership" /\ lastCall'.sender # _manager) =>
           /\ lastCall'.outcome = "Caller is not manager"
           /\ OwnershipUnchanged
      /\ (lastCall'.op = "claimOwnership"
            /\ lastCall'.sender # _managerCandidate) =>
           /\ lastCall'.outcome = "Sender not allowed"
           /\ OwnershipUnchanged
      /\ (lastCall'.op = "claimOwnership"
            /\ lastCall.op = "claimOwnership" /\ ~Reverted) =>
           /\ lastCall'.outcome = "Sender not allowed"
           /\ OwnershipUnchanged
    ]_vars

\* a candidate has claimed: it is the manager and no candidate is left
C9_Witness ==
  /\ lastCall.op = "claimOwnership" /\ ~Reverted
  /\ _manager = lastCall.sender
  /\ _manager # Deployer
  /\ _managerCandidate = ZERO_ADDRESS

C11_ClaimRedeploysTimelock ==
  [][ /\ CalledOk("claimOwnership") =>
           /\ getTimelockController' # getTimelockController
           /\ \A k \in 1.._timelockController :
                getTimelockController' # TimelockAddress(k)
           /\ timelocks'[_timelockController'].deployed
           /\ timelocks'[_timelockController'].minDelay = MIN_TIMELOCK_DELAY
           /\ timelocks'[_timelockController'].proposer = _manager'
           /\ timelocks'[_timelockController'].executor = _manager'
           /\ \A r \in ScheduledRecipients :
                timelocks'[_timelockController'].ops[r] = NoOperation
           /\ \A k \in 1.._timelockController :
                timelocks'[k] = timelocks[k]
      /\ lastCall'.op = "execute" =>
           \A k \in 1..(_timelockController - 1), r \in ScheduledRecipients,
              sender \in Accounts :
             execute(sender, k, r) =>
               /\ lastCall'.outcome # "ok"
               /\ _feeRecipient' = _feeRecipient
               /\ ( /\ sender = timelocks[k].executor
                    /\ isOperationReady(k, r) ) =>
                  lastCall'.outcome =
                    "TimelockController: underlying transaction reverted"
    ]_vars

\* the previous manager executed, after the handover and after the delay, the
\* change it had scheduled on its own timelock
C11_Witness ==
  /\ lastCall.op = "execute"
  /\ lastCall.outcome = "TimelockController: underlying transaction reverted"
  /\ _timelockController > 1
  /\ _manager # Deployer
  /\ _feeRecipient = Deployer
  /\ \E r \in ScheduledRecipients : isOperationReady(1, r)

\* ------------------------------------------------------------------------
\* Properties of the auctions
\* ------------------------------------------------------------------------
PoolCalled(op) == poolCall'.op = op

PoolCalledOk(op) == poolCall'.op = op /\ poolCall'.outcome = "ok"

PoolsUnchanged == UNCHANGED <<_pools, _poolData, lbps, held>>

\* C12: createAuction reverts with 'Caller is not manager' for a caller other
\* than the manager, then 'Only 2-token LBPs' unless there are two tokens, then
\* 'Length mismatch' unless there are two end weights, then 'Invalid LBP times'
\* unless startTime < endTime, then 'LBP duration too short' when the auction
\* lasts less than a day; a reverted call registers no pool, changes no pool
\* data and moves no token.
C12_CreateAuctionReverts ==
  [][ PoolCalled("createAuction") =>
        LET c == poolCall'.arg
            reason == poolCall'.outcome
            byManager == poolCall'.sender = _manager
            twoTokens == byManager /\ Len(c.tokens) = 2
            twoWeights == twoTokens /\ Len(c.endWeights) = 2
            ordered == twoWeights /\ c.startTime < c.endTime
            longEnough == ordered /\ c.endTime - c.startTime >= MINIMUM_LBP_DURATION
        IN /\ ~byManager <=> reason = "Caller is not manager"
           /\ (byManager /\ ~twoTokens) <=> reason = "Only 2-token LBPs"
           /\ (twoTokens /\ ~twoWeights) <=> reason = "Length mismatch"
           /\ (twoWeights /\ ~ordered) <=> reason = "Invalid LBP times"
           /\ (ordered /\ ~longEnough) <=> reason = "LBP duration too short"
           /\ longEnough <=> reason = "ok"
           /\ reason # "ok" =>
                /\ PoolsUnchanged
                /\ poolCall'.moved = <<>>
                /\ poolCount' = poolCount
                /\ \A p \in PoolAddresses :
                     /\ isPool(p)' = isPool(p)
                     /\ getPoolData(p)' = getPoolData(p)
    ]_vars

\* the manager asked for an auction that is too short, after one was created
C12_Witness ==
  /\ poolCall.op = "createAuction"
  /\ poolCall.sender = _manager
  /\ poolCall.outcome = "LBP duration too short"
  /\ poolCount = 1

OwnerOperations == {"setSwapEnabled", "transferPoolOwnership", "exitPool"}

\* C14: setSwapEnabled, transferPoolOwnership and exitPool for address p revert
\* with 'Invalid pool address' exactly when p is not a registered pool, and
\* otherwise with 'Caller is not pool owner' exactly when the caller is not the
\* pool's recorded owner, the launcher's manager included; a reverted call
\* leaves the pool data, the swap-enabled flag and all balances unchanged.
C14_OnlyPoolOwner ==
  [][ \A op \in OwnerOperations :
        PoolCalled(op) =>
          LET p == poolCall'.pool
              caller == poolCall'.sender
              reason == poolCall'.outcome
          IN /\ reason = "Invalid pool address" <=> ~isPool(p)
             /\ reason = "Caller is not pool owner" <=>
                  (isPool(p) /\ caller # _poolData[p].owner)
             /\ (isPool(p) /\ caller = _manager
                           /\ _manager # _poolData[p].owner) => reason # "ok"
             /\ reason # "ok" =>
                  /\ PoolsUnchanged
                  /\ poolCall'.moved = <<>>
    ]_vars

\* the manager tried to exit a pool whose owner had enabled swaps
C14_Witness ==
  /\ poolCall.op = "exitPool"
  /\ poolCall.sender = _manager
  /\ poolCall.outcome = "Caller is not pool owner"
  /\ isPool(poolCall.pool)
  /\ lbps[poolCall.pool].swapEnabled
  /\ lbps[poolCall.pool].bpt = InitialBpt

\* C15: pool ownership is handed over in two steps. transferPoolOwnership(p, n)
\* by the owner leaves the recorded owner and makes n the candidate; the owner
\* of a pool changes only in a claimPoolOwnership(p) call by the current
\* candidate, which makes it the owner and resets the candidate to zero;
\* claimPoolOwnership by anyone else reverts with 'Sender not allowed' and
\* changes nothing; right after the claim the claimant and nobody else, the
\* previous owner included, passes the owner check of setSwapEnabled,
\* transferPoolOwnership and exitPool for that pool.
C15_TwoStepPoolHandover ==
  [][ \A p \in PoolAddresses :
        /\ _poolData'[p].owner # _poolData[p].owner =>
             /\ PoolCalledOk("claimPoolOwnership")
             /\ poolCall'.pool = p
             /\ poolCall'.sender = _poolData[p].ownerCandidate
             /\ _poolData'[p].owner = _poolData[p].ownerCandidate
        /\ (PoolCalledOk("transferPoolOwnership") /\ poolCall'.pool = p) =>
             /\ poolCall'.sender = _poolData[p].owner
             /\ _poolData'[p].owner = _poolData[p].owner
             /\ _poolData'[p].ownerCandidate = poolCall'.arg
        /\ (PoolCalledOk("claimPoolOwnership") /\ poolCall'.pool = p) =>
             /\ poolCall'.sender = _poolData[p].ownerCandidate
             /\ _poolData'[p].owner = poolCall'.sender
             /\ _poolData'[p].ownerCandidate = ZERO_ADDRESS
        /\ (PoolCalled("claimPoolOwnership") /\ poolCall'.pool = p
               /\ poolCall'.sender # _poolData[p].ownerCandidate) =>
             /\ poolCall'.outcome = "Sender not allowed"
             /\ PoolsUnchanged
        /\ (poolCall.op = "claimPoolOwnership" /\ poolCall.outcome = "ok"
               /\ poolCall.pool = p /\ poolCall'.pool = p
               /\ poolCall'.op \in OwnerOperations) =>
             (poolCall'.outcome = "Caller is not pool owner"
                <=> poolCall'.sender # poolCall.sender)
    ]_vars

\* the candidate has claimed the pool and the previous owner was turned away
C15_Witness ==
  /\ poolCall.op = "setSwapEnabled"
  /\ poolCall.outcome = "Caller is not pool owner"
  /\ poolCall.sender = Deployer + 1
  /\ isPool(poolCall.pool)
  /\ _poolData[poolCall.pool].owner = Deployer
  /\ _poolData[poolCall.pool].ownerCandidate = ZERO_ADDRESS

\* ------------------------------------------------------------------------
\* Properties of the exit
\* ------------------------------------------------------------------------
\* the transfers of a call that left the launcher for an address
TransfersTo(moved, to) ==
  { i \in DOMAIN moved : moved[i].from = LauncherAddress /\ moved[i].to = to }

\* C16: on a successful exitPool, with F the launcher's fund token balance
\* right after the vault exit and S the recorded fundTokenSeedAmount: if
\* F <= S no transfer goes to the fee recipient; if F > S one transfer of
\* floor((F - S) * exitFeePercentage / 1e18) of the fund token goes to the fee
\* recipient; the rest of the fund token and all of the project token go to
\* the calling pool owner and the launcher keeps none of either.
C16_ExitFee ==
  [][ PoolCalledOk("exitPool") =>
        LET p == poolCall'.pool
            moved == poolCall'.moved
            caller == poolCall'.sender
            data == _poolData[p]
            f == data.fundTokenIndex + 1
            q == IF f = 1 THEN 2 ELSE 1
            fundToken == lbps[p].tokens[f]
            projectToken == lbps[p].tokens[q]
            F == held[fundToken]
                   + (lbps[p].balances[f] - lbps'[p].balances[f])
            P == held[projectToken]
                   + (lbps[p].balances[q] - lbps'[p].balances[q])
            S == data.fundTokenSeedAmount
            fee == IF F > S
                   THEN ((F - S) * exitFeePercentage.n) \div exitFeePercentage.d
                   ELSE 0
            toRecipient == TransfersTo(moved, _feeRecipient)
            toCaller == TransfersTo(moved, caller)
        IN /\ caller = data.owner
           /\ F <= S => toRecipient = {}
           /\ F > S =>
                /\ Cardinality(toRecipient) = 1
                /\ \A i \in toRecipient :
                     moved[i].token = fundToken /\ moved[i].amount = fee
           /\ Cardinality(toCaller) = 2
           /\ \E i \in toCaller :
                moved[i].token = fundToken /\ moved[i].amount = F - fee
           /\ \E i \in toCaller :
                moved[i].token = projectToken /\ moved[i].amount = P
           /\ held'[fundToken] = 0
           /\ held'[projectToken] = 0
    ]_vars

\* the owner exited after the fund token balance grew: a fee that the
\* rounding made smaller than its exact value went to the fee recipient, in a
\* fund token of 17 decimals
C16_Witness ==
  /\ poolCall.op = "exitPool" /\ poolCall.outcome = "ok"
  /\ decimals(lbps[poolCall.pool].tokens[
                 _poolData[poolCall.pool].fundTokenIndex + 1]) = 17
  /\ \E i \in TransfersTo(poolCall.moved, _feeRecipient) :
       /\ poolCall.moved[i].amount = 1
       /\ exitFeePercentage = FixedPoint(1, 2)
       /\ \E j \in TransfersTo(poolCall.moved, poolCall.sender) :
            /\ poolCall.moved[j].token = poolCall.moved[i].token
            /\ poolCall.moved[j].amount
                 = _poolData[poolCall.pool].fundTokenSeedAmount + 2

\* ------------------------------------------------------------------------
\* Properties of the revenue share distributor
\* ------------------------------------------------------------------------
\* C17: distributeRevenueShare(token) on a distributor holding B > 0 of the
\* token transfers floor(B * partnerRevenueSharePct / 1e18) to
\* partnerFeeRecipient and B minus that amount to protocolFeeRecipient, the
\* two transfers summing to B, and leaves the distributor with none of the
\* token; with B = 0 it makes no transfer and emits no event.
C17_RevenueSplit ==
  [][ distributorCall'.op = "distributeRevenueShare" =>
        LET token == distributorCall'.arg
            moved == distributorCall'.moved
            B == distributorBalance[token]
            pct == distributor.partnerRevenueSharePct
            share == (B * pct.n) \div pct.d
        IN /\ distributorCall'.outcome = "ok"
           /\ B > 0 =>
                /\ Len(moved) = 2
                /\ moved[1] = Transfer(token, DistributorAddress,
                                       distributor.partnerFeeRecipient, share)
                /\ moved[2] = Transfer(token, DistributorAddress,
                                       distributor.protocolFeeRecipient,
                                       B - share)
                /\ moved[1].amount + moved[2].amount = B
                /\ distributorBalance'[token] = 0
                /\ Len(distributorCall'.emitted) = 1
           /\ B = 0 =>
                /\ moved = <<>>
                /\ distributorCall'.emitted = <<>>
           /\ \A t \in Erc20s \ {token} :
                distributorBalance'[t] = distributorBalance[t]
    ]_vars

\* three units of a token of 17 decimals were split in halves: one unit went
\* to the partner, two to the protocol
C17_Witness ==
  /\ distributorCall.op = "distributeRevenueShare"
  /\ decimals(distributorCall.arg) = 17
  /\ distributor.partnerRevenueSharePct = FixedPoint(1, 2)
  /\ Len(distributorCall.moved) = 2
  /\ distributorCall.moved[1].amount = 1
  /\ distributorCall.moved[2].amount = 2
  /\ distributorBalance[distributorCall.arg] = 0

\* what the constructor call of this step was given
Constructed == distributorCall'.op = "constructor"

\* deployment reverts exactly for a share above FixedPoint.ONE, and nothing
\* changes the public state of a deployed distributor
DeploymentGuarded ==
  /\ Constructed =>
       LET pct == distributorCall'.arg.partnerSharePct
       IN /\ distributorCall'.outcome = "Invalid revenue share"
               <=> pct.n > pct.d
          /\ distributorCall'.outcome = "ok"
               <=> (0 <= pct.n /\ pct.n <= pct.d)
          /\ distributorCall'.outcome # "ok" => ~distributor'.deployed
          /\ distributorCall'.outcome = "ok" =>
               /\ distributor'.deployed
               /\ distributor'.partnerFeeRecipient
                    = distributorCall'.arg.partnerAddress
               /\ distributor'.partnerRevenueSharePct = pct
               /\ distributor'.partnerName = distributorCall'.arg.name
  /\ distributor.deployed => distributor' = distributor

\* C18, as amended: deploying a distributor reverts with 'Invalid revenue
\* share' when partnerSharePct > 1e18 and succeeds for every share in
\* [0, 1e18]; afterwards partnerFeeRecipient, partnerRevenueSharePct and
\* partnerName equal the constructor arguments, protocolFeeRecipient equals
\* balancerAddress or, when balancerAddress is the zero address, the Vault's
\* protocol fees collector, and no operation changes them.
C18_ImmutablesFromConstructor ==
  [][ /\ DeploymentGuarded
      /\ (Constructed /\ distributorCall'.outcome = "ok") =>
           distributor'.protocolFeeRecipient =
             IF distributorCall'.arg.balancerAddress = ZERO_ADDRESS
             THEN ProtocolFeesCollector
             ELSE distributorCall'.arg.balancerAddress
    ]_vars

\* C18, as stated: as above, with protocolFeeRecipient equal to the
\* constructor argument balancerAddress in every deployment.
C18_ImmutablesEqualArguments ==
  [][ /\ DeploymentGuarded
      /\ (Constructed /\ distributorCall'.outcome = "ok") =>
           distributor'.protocolFeeRecipient
             = distributorCall'.arg.balancerAddress
    ]_vars

\* a distributor deployed with the whole share for the partner and the zero
\* address for Balancer has distributed revenue
C18_Witness ==
  /\ distributor.deployed
  /\ distributor.partnerRevenueSharePct = FixedPoint(1, 1)
  /\ distributor.protocolFeeRecipient = ProtocolFeesCollector
  /\ distributor.partnerName = "Partner"
  /\ distributorCall.op = "distributeRevenueShare"
  /\ Len(distributorCall.moved) = 2
  /\ distributorCall.moved[1].amount = MaxRevenue

\* ------------------------------------------------------------------------
\* Properties of the permissioned pool
\* ------------------------------------------------------------------------
SwapOperations == {"swapGivenIn", "swapGivenOut"}

\* both parties of the swap recorded in this step are on the pool's allowlist
BothAllowlisted ==
  /\ permissionedCall'.from \in _allowlists[PoolAllowlistId]
  /\ permissionedCall'.to \in _allowlists[PoolAllowlistId]

\* C19, as amended: a given-in or given-out swap succeeds only if both
\* swapRequest.from and swapRequest.to are on the pool's allowlist at the time
\* of the swap; otherwise it reverts, with 'Swap not allowed' while the pool
\* is not paused and with the pause error of whenNotPaused, which runs before
\* the allowlist is consulted, while it is paused.
C19_SwapNeedsAllowlistOrPause ==
  [][ permissionedCall'.op \in SwapOperations =>
        /\ permissionedCall'.outcome = "ok" => BothAllowlisted
        /\ (~BothAllowlisted /\ ~paused) =>
             permissionedCall'.outcome = "Swap not allowed"
        /\ (~BothAllowlisted /\ paused) =>
             permissionedCall'.outcome = "BAL#402"
        /\ UNCHANGED <<_allowlistOwners, _allowlists, bptBalances, paused>>
    ]_vars

\* C19, as stated: a given-in or given-out swap succeeds only if both
\* swapRequest.from and swapRequest.to are on the pool's allowlist at the time
\* of the swap; otherwise it reverts with 'Swap not allowed'.
C19_SwapNeedsAllowlist ==
  [][ permissionedCall'.op \in SwapOperations =>
        /\ permissionedCall'.outcome = "ok" => BothAllowlisted
        /\ ~BothAllowlisted =>
             permissionedCall'.outcome = "Swap not allowed"
    ]_vars

\* a trader who is on another allowlist, but not on the pool's, was refused a
\* given-out swap towards an allowlisted recipient
C19_Witness ==
  /\ permissionedCall.op = "swapGivenOut"
  /\ permissionedCall.outcome = "Swap not allowed"
  /\ permissionedCall.from \in _allowlists[PoolAllowlistId + 1]
  /\ permissionedCall.from \notin _allowlists[PoolAllowlistId]
  /\ permissionedCall.to \in _allowlists[PoolAllowlistId]
  /\ ~paused

\* BPT reaches only addresses that are on the pool's allowlist in that step
\* (the zero address may always receive): so every holder was allowlisted
\* when it last received BPT
ReceivedWhileAllowlisted ==
  \A a \in Accounts :
    bptBalances'[a] > bptBalances[a] =>
      /\ a \in _allowlists[PoolAllowlistId]
      /\ permissionedCall'.op \in {"joinPool", "transfer"}
      /\ permissionedCall'.to = a
      /\ permissionedCall'.outcome = "ok"

\* C20, as amended: BPT is minted or transferred only to the zero address or
\* to an address on the pool's allowlist at that moment; a join or a transfer
\* whose BPT recipient is not allowlisted reverts, whoever sends the tokens; a
\* join whose recipient is allowlisted succeeds unless the pool is paused; so
\* every non-zero holder of BPT was allowlisted when it last received BPT.
C20_BptOnlyToAllowlistedRecipient ==
  [][ /\ ReceivedWhileAllowlisted
      /\ permissionedCall'.op = "joinPool" =>
           /\ permissionedCall'.to \notin _allowlists[PoolAllowlistId] =>
                permissionedCall'.outcome \in {"Invalid bpt recipient", "BAL#402"}
           /\ (permissionedCall'.to \in _allowlists[PoolAllowlistId]
                  /\ ~paused) =>
                /\ permissionedCall'.outcome = "ok"
                /\ bptBalances'[permissionedCall'.to]
                     = bptBalances[permissionedCall'.to] + 1
           /\ permissionedCall'.outcome # "ok" => bptBalances' = bptBalances
      /\ permissionedCall'.op = "transfer" =>
           (permissionedCall'.outcome = "ok"
              <=> permissionedCall'.to \in _allowlists[PoolAllowlistId])
    ]_vars

\* C20, as stated: BPT is minted or transferred only to the zero address or
\* to an allowlisted address; a liquidity provider joining for itself is
\* reverted when it is not allowlisted and succeeds when it is.
C20_AllowlistedJoinSucceeds ==
  [][ /\ ReceivedWhileAllowlisted
      /\ (permissionedCall'.op = "joinPool"
            /\ permissionedCall'.from = permissionedCall'.to) =>
           (permissionedCall'.outcome = "ok"
              <=> permissionedCall'.from \in _allowlists[PoolAllowlistId])
    ]_vars

\* an account that is not allowlisted joined for an allowlisted recipient,
\* which holds BPT beside the zero address
C20_Witness ==
  /\ permissionedCall.op = "joinPool"
  /\ permissionedCall.outcome = "ok"
  /\ permissionedCall.from \notin _allowlists[PoolAllowlistId]
  /\ permissionedCall.to \in _allowlists[PoolAllowlistId]
  /\ bptBalances[permissionedCall.to] = MaxBpt
  /\ bptBalances[ZERO_ADDRESS] > 0

\* C21: a liquidity provider that holds BPT (it was allowlisted when the BPT
\* reached it) and is no longer on the pool's allowlist cannot exit: its
\* exitPool reverts and burns nothing, whereas the exit of a liquidity
\* provider that is still allowlisted succeeds and burns its BPT.
C21_RemovedLpCannotExit ==
  [][ permissionedCall'.op = "exitPool" =>
        /\ bptBalances[permissionedCall'.from] > 0
        /\ IF permissionedCall'.from \in _allowlists[PoolAllowlistId]
           THEN /\ permissionedCall'.outcome = "ok"
                /\ bptBalances'[permissionedCall'.from]
                     = bptBalances[permissionedCall'.from] - 1
           ELSE /\ permissionedCall'.outcome # "ok"
                /\ bptBalances' = bptBalances
    ]_vars

\* C22: the owner of an allowlist is set exactly once: createAllowlist on an
\* allowlist without owner makes its caller the owner, createAllowlist on an
\* allowlist that has an owner reverts with 'allowlist already has an owner'
\* whoever calls, no operation changes or clears an owner once it is set, and
\* an allowlist without owner has no members.
C22_OwnerSetOnce ==
  [][ /\ \A id \in AllowlistIds :
           _allowlistOwners[id] # ZERO_ADDRESS =>
             _allowlistOwners'[id] = _allowlistOwners[id]
      /\ permissionedCall'.op = "createAllowlist" =>
           IF _allowlistOwners[permissionedCall'.allowlistId] = ZERO_ADDRESS
           THEN /\ permissionedCall'.outcome = "ok"
                /\ _allowlistOwners' =
                     [_allowlistOwners EXCEPT ![permissionedCall'.allowlistId] =
                        permissionedCall'.from]
           ELSE /\ permissionedCall'.outcome = "allowlist already has an owner"
                /\ _allowlistOwners' = _allowlistOwners
      /\ permissionedCall'.op # "createAllowlist" =>
           _allowlistOwners' = _allowlistOwners
      /\ \A id \in AllowlistIds :
           _allowlistOwners'[id] = ZERO_ADDRESS => _allowlists'[id] = {}
    ]_vars

\* another account tried to create an allowlist that has an owner and members
\* and was refused, while the other allowlist was never created
C22_Witness ==
  /\ permissionedCall.op = "createAllowlist"
  /\ permissionedCall.outcome = "allowlist already has an owner"
  /\ permissionedCall.from # _allowlistOwners[permissionedCall.allowlistId]
  /\ _allowlists[permissionedCall.allowlistId] # {}
  /\ \E id \in AllowlistIds : _allowlistOwners[id] = ZERO_ADDRESS

\* C23: membership of an allowlist changes only by a successful call of its
\* owner about that allowlist and that member; addAllowedAddress and
\* removeAllowedAddress by another caller revert with 'not allowlist owner' and
\* change nothing; after the owner's successful addAllowedAddress the member is
\* listed and after its successful removeAllowedAddress it is not (so a member
\* is listed exactly when the owner's last successful operation on it was an
\* addition); adding a listed member reverts with 'address already
\* allowlisted'; no operation changes the membership of another allowlist.
C23_MembershipByOwnerOnly ==
  [][ /\ \A id \in AllowlistIds, m \in Accounts :
           (m \in _allowlists'[id]) # (m \in _allowlists[id]) =>
             /\ permissionedCall'.op =
                  (IF m \in _allowlists[id] THEN "removeAllowedAddress"
                   ELSE "addAllowedAddress")
             /\ permissionedCall'.outcome = "ok"
             /\ permissionedCall'.allowlistId = id
             /\ permissionedCall'.to = m
             /\ permissionedCall'.from = _allowlistOwners[id]
      /\ permissionedCall'.op \in {"addAllowedAddress", "removeAllowedAddress"} =>
           IF permissionedCall'.from
                # _allowlistOwners[permissionedCall'.allowlistId]
           THEN /\ permissionedCall'.outcome = "not allowlist owner"
                /\ _allowlists' = _allowlists
           ELSE IF permissionedCall'.op = "removeAllowedAddress"
           THEN /\ permissionedCall'.outcome = "ok"
                /\ permissionedCall'.to
                     \notin _allowlists'[permissionedCall'.allowlistId]
           ELSE IF permissionedCall'.to
                     \in _allowlists[permissionedCall'.allowlistId]
           THEN /\ permissionedCall'.outcome = "address already allowlisted"
                /\ _allowlists' = _allowlists
           ELSE /\ permissionedCall'.outcome = "ok"
                /\ permissionedCall'.to
                     \in _allowlists'[permissionedCall'.allowlistId]
    ]_vars

\* the owner of one allowlist, who does not own the other, removed a member
\* that stays listed on the other allowlist
C23_Witness ==
  /\ permissionedCall.op = "removeAllowedAddress"
  /\ permissionedCall.outcome = "ok"
  /\ permissionedCall.to \notin _allowlists[permissionedCall.allowlistId]
  /\ \E id \in AllowlistIds :
       /\ id # permissionedCall.allowlistId
       /\ permissionedCall.to \in _allowlists[id]
       /\ _allowlistOwners[id] # permissionedCall.from

\* C24: in an initialized CharityPool every swap (the swap fee is not zero)
\* leaves the pool with a positive BPT balance of its own, and a
\* payoutToCharity after at least one swap, by any account, burns all of that
\* BPT and delivers a positive amount of pool tokens to the charity address of
\* the deployment, whoever calls.
C24_FeesPaidOutToCharity ==
  [][ /\ (charityCall'.op = "swap" /\ charityCall'.outcome = "ok") =>
           charityPool'.ownBpt > 0
      /\ (charityCall'.op = "payoutToCharity" /\ charityPool.swaps > 0) =>
           /\ charityCall'.outcome = "ok"
           /\ charityCall'.burned = charityPool.ownBpt
           /\ charityPool'.ownBpt = 0
           /\ charityCall'.to = CharityAddress
           /\ \E i \in 1..2 : charityPool'.received[i] > charityPool.received[i]
    ]_vars

\* C30: an ExamplePool can be deployed with 2 or with 3 tokens: the
\* constructor completes, _getTotalTokens() is the number of tokens, the
\* tokens are stored in order with _token2 the zero address for 2 tokens, and
\* _scalingFactors() returns one factor per token without reverting.
C30_TwoOrThreeTokens ==
  /\ (exampleCall.op = "constructor" /\ Len(exampleCall.arg) \in {2, 3}) =>
       /\ exampleCall.outcome = "ok"
       /\ examplePool.deployed
       /\ _getTotalTokens = Len(exampleCall.arg)
       /\ examplePool._token0 = exampleCall.arg[1]
       /\ examplePool._token1 = exampleCall.arg[2]
       /\ examplePool._token2 = (IF Len(exampleCall.arg) = 3
                                 THEN exampleCall.arg[3] ELSE ZERO_ADDRESS)
  /\ exampleCall.op = "_scalingFactors" =>
       /\ exampleCall.outcome = "ok"
       /\ Len(exampleCall.value) = _getTotalTokens

\* C25: getAmountInForSpotPrice(pair, desired, n) performs exactly n
\* refinement steps before it returns, each adding extraAmountIn to the
\* zero-fee estimate, with no early exit.
C25_ExactlyNRefinements ==
  fn = "getAmountInForSpotPrice" => ret.steps = args.numIterations

\* C26: getExtraAmountIn returns the computed correction term
\* ((1 - swapFee) * amountIn + balanceIn) * (desired - current) /
\* (current * (swapFee * balanceIn / (amountIn + balanceIn)
\*             + (1 - swapFee) * (weightIn / weightOut + 1))),
\* never an undefined value.
C26_ExtraAmountInComputed ==
  fn = "getExtraAmountIn" =>
    LET term == extraAmountInTerm(calledPair, args.currentSpotPrice,
                                  args.amount, args.desiredSpotPrice)
    IN /\ ret.value # Undefined
       /\ Exact(term) => ret.value = term

\* C27: at trade size zero both post-trade spot price functions are positive
\* and equal to the current spot price getSpotPrice gives for the pair.
C27_SpotPriceAfterZeroTrade ==
  (/\ fn \in {"_spotPriceAfterSwapExactTokenInForTokenOut",
              "_spotPriceAfterSwapTokenInForExactTokenOut"}
   /\ IsZero(args.amount)
   /\ Exact(getSpotPrice(calledPair))) =>
    /\ IsFin(ret.value)
    /\ ret.value.n > 0
    /\ ret.value = getSpotPrice(calledPair)

\* what a successful exit transferred to the fee recipient
FeePaid(moved) ==
  IF TransfersTo(moved, _feeRecipient) = {} THEN 0
  ELSE moved[CHOOSE i \in TransfersTo(moved, _feeRecipient) : TRUE].amount

\* C28: the exit fee does not depend on how the exit is split: when the fund
\* token balance of a pool has grown beyond the seed amount and the owner
\* exits with a part of the BPT (maxBPTAmountIn > 0), the fee of that exit
\* plus the fee of the exit of the remaining BPT equals the fee of one full
\* exit from the state before, up to one unit per partial call.
C28_FeeIndependentOfSplit ==
  [][ \A pool \in PoolAddresses :
        (/\ poolCall'.op = "exitPool"
         /\ poolCall'.outcome = "ok"
         /\ poolCall'.pool = pool
         /\ poolCall'.arg > 0
         /\ poolCall'.arg < lbps[pool].bpt
         /\ lbps[pool].balances[_poolData[pool].fundTokenIndex + 1]
              > _poolData[pool].fundTokenSeedAmount) =>
          Abs(FeePaid(poolCall'.moved) + fullExitFee(pool)' - fullExitFee(pool))
            <= 2
    ]_vars

\* C29: a successful exitPool pays the caller only what this exit withdrew
\* from the pool, minus the exit fee, and never tokens the launcher held
\* before: the launcher's balance of each token is the same before and after.
C29_ExitPaysOnlyWithdrawn ==
  [][ PoolCalledOk("exitPool") =>
        LET p == poolCall'.pool
            moved == poolCall'.moved
            f == _poolData[p].fundTokenIndex + 1
            q == IF f = 1 THEN 2 ELSE 1
            withdrawnFund == lbps[p].balances[f] - lbps'[p].balances[f]
            withdrawnProject == lbps[p].balances[q] - lbps'[p].balances[q]
            toCaller == TransfersTo(moved, poolCall'.sender)
        IN /\ held' = held
           /\ \E i \in toCaller :
                /\ moved[i].token = lbps[p].tokens[f]
                /\ moved[i].amount = withdrawnFund - FeePaid(moved)
           /\ \E i \in toCaller :
                /\ moved[i].token = lbps[p].tokens[q]
                /\ moved[i].amount = withdrawnProject
    ]_vars

====
